---- MODULE Spec2Model ----
(***************************************************************************)
(* Verification model of the course-generator service:                     *)
(*   - RateLimiter            (utils/rateLimiter.ts)                       *)
(*   - generation pipeline    (src/index.ts, /api/generate-course[-stream])*)
(*   - WebCrawlerService      (services/webCrawlerService.ts)              *)
(* Each component has its own specification (SpecRL, SpecSeq, SpecPipe,    *)
(* SpecCrawl); the variables of the other components stay at their         *)
(* initial values.                                                         *)
(***************************************************************************)
EXTENDS Integers, Sequences, FiniteSets, TLC

\* ------------------------------------------------------------------ bounds
\* constructor arguments of the RateLimiter instance under study
MaxTokens == 2
RefillInterval == 2
\* the clock (Date.now()) runs over 0..MaxTime
MaxTime == 5
\* number of logically concurrent callers of acquire()
NumCallers == 3
\* request and structure sizes of a pipeline run
MaxSources == 2
MaxModules == 2
MaxSections == 2
MaxLessons == 2
MaxTotalLessons == 3
\* crawler: concurrent crawlUrl calls, URLs, content versions of a page
NumCrawlCalls == 2
NumUrls == 1
NumVersions == 2
\* refill windows that pass during a crawl session, and the value at which
\* the per-URL count of GETs saturates
CrawlWindows == 1
HttpCountCap == 2

\* crawlMultipleUrls: the URLs of the modelled web, the longest seed list,
\* the largest maxDepth and maxPagesPerDomain a caller passes, and the
\* number of links one page may add to the queue (10 in the source)
NumPages == 4
MaxSeeds == 1
MaxDepthSetting == 2
MaxPagesSetting == 3
LinkSliceCap == 2
NumBatchCalls == 2

\* extractHeadings: the longest text (in lines) and the longest run of
\* '#' markers at the start of a line
MaxLines == 4
MaxMarkers == 7
MaxDocLines == 3
MaxDocMarkers == 2
NumBodies == 2
\* courses in the database, revisions of a course row
NumCourses == 1
MaxRevisions == 2
\* pipeline runs of one process and the URLs among their sources
NumRuns == 2
NumSourceUrls == 2

Callers == 1..NumCallers

Min(a, b) == IF a < b THEN a ELSE b

\* ------------------------------------------------------------------ state
VARIABLES
  \* RateLimiter fields
  tokens, lastRefill, queue,
  \* Date.now()
  now,
  \* per caller: "idle" (no acquire pending), "waiting" (promise pending in
  \* the queue), "dropped" (promise discarded by reset(), never resolved)
  callerState,
  \* observation of the last RateLimiter operation:
  \*   op        : "init" | "acquire" | "get" | "reset" | "tick"
  \*   resumed   : callers resumed from the queue, in order of resumption
  \*   immediate : the caller admitted without queueing ({c}), or {}
  \*   decs      : number of decrements of tokens the operation performed
  \*   reported  : value returned by getAvailableTokens (-1 otherwise)
  \*   preTokens, preLast, preQueue : fields before the operation
  lastOp,
  \* times of the admitted acquires since construction / the last reset
  admitTimes,
  \* right after the last acquire/reset/construction: the time, the token
  \* count and the number of waiting callers
  idleSince, idleTokens, idleWaiting,
  \* one run of the generation pipeline (request handler of
  \* /api/generate-course-stream or /api/generate-course)
  run,
  \* WebCrawlerService.crawledUrls
  crawledUrls,
  \* Redis content under web_content:<url>, and CacheService.isConnected
  cache, isConnected,
  \* per URL, the number of HTTP GETs issued in the current crawl session
  httpCount,
  \* per running crawlUrl call: its position, arguments and locals
  crawl,
  \* the crawlUrl call that returned or threw in the last step, with its
  \* outcome
  lastReturn,
  \* WebCrawlerService.urlQueue.  Each entry carries, next to the URL, the
  \* depth at which it was discovered (seeds 1, links of a depth-k page k+1)
  urlQueue,
  \* per crawlMultipleUrls call: its position, arguments and locals
  batch,
  \* one ContextAgent.extractHeadings call: its arguments and its result
  hd,
  \* the Redis content under the course:, course:list: and enrollment: keys
  \* (the JSON text stored under a key is represented by the value it
  \* encodes)
  kv,
  \* observation of the CacheService calls of one client: the last set(),
  \* the deletePattern() that followed it with the Redis content before and
  \* after it, and the get() that followed that
  law,
  apiCall,
  \* the course table of the database
  db,
  \* a running getCourseById / getCoursesByUser call: its position and the
  \* rows it read from the database
  reader,
  \* the last createCourse / updateCourse / deleteCourse call that returned
  lastMutation,
  \* ContextAgent.processedUrls, and the extractContent calls of each
  \* pipeline run with their outcomes
  agent

\* the limiter itself, and the observations made of its operations
rlCore == <<tokens, lastRefill, queue, now, callerState>>
rlObs == <<lastOp, admitTimes, idleSince, idleTokens, idleWaiting>>
rlVars == <<rlCore, rlObs>>

batchVars == <<urlQueue, batch>>

crawlVars ==
  <<crawledUrls, cache, isConnected, httpCount, crawl, lastReturn, batchVars>>

cacheVars == <<kv, law, apiCall>>

courseVars == <<db, reader, lastMutation>>

svcVars == <<cacheVars, courseVars, agent>>

vars == <<rlVars, run, crawlVars, hd, svcVars>>

\* ------------------------------------------------------------ RateLimiter

\* variant: the number of windows is rounded up instead of down
TokensToAdd_RoundUp(t, last) ==
  ((t - last + RefillInterval - 1) \div RefillInterval) * MaxTokens

\* variant: one token per elapsed window instead of a full bucket
TokensToAdd_OnePerWindow(t, last) == (t - last) \div RefillInterval

\* refill(): Math.floor(timePassed / refillInterval) * maxTokens
TokensToAdd(t, last) == ((t - last) \div RefillInterval) * MaxTokens

\* variant: the newest waiting request is resolved first (pop, not shift)
RECURSIVE Drain_Lifo(_, _, _)
Drain_Lifo(tok, q, res) ==
  IF tok > 0 /\ Len(q) > 0
  THEN Drain_Lifo(tok - 1, SubSeq(q, 1, Len(q) - 1), Append(res, q[Len(q)]))
  ELSE [tokens |-> tok, queue |-> q, resumed |-> res]

\* variant: waiting requests are resolved without consuming a token
RECURSIVE Drain_NoDecrement(_, _, _)
Drain_NoDecrement(tok, q, res) ==
  IF tok > 0 /\ Len(q) > 0
  THEN Drain_NoDecrement(tok, Tail(q), Append(res, Head(q)))
  ELSE [tokens |-> tok, queue |-> q, resumed |-> res]

\* refill(): the while loop that resolves waiting requests
RECURSIVE Drain(_, _, _)
Drain(tok, q, res) ==
  IF tok > 0 /\ Len(q) > 0
  THEN Drain(tok - 1, Tail(q), Append(res, Head(q)))
  ELSE [tokens |-> tok, queue |-> q, resumed |-> res]

\* variant: tokens are added but the waiting requests are not resolved
Refill_NoDrain(tok, last, q, t) ==
  LET add == TokensToAdd(t, last) IN
  IF add > 0
  THEN [tokens |-> Min(MaxTokens, tok + add), lastRefill |-> t, queue |-> q,
        resumed |-> <<>>, filled |-> Min(MaxTokens, tok + add)]
  ELSE [tokens |-> tok, lastRefill |-> last, queue |-> q,
        resumed |-> <<>>, filled |-> tok]

\* variant: lastRefill is not advanced when tokens are added
Refill_KeepLast(tok, last, q, t) ==
  LET add == TokensToAdd(t, last) IN
  IF add > 0
  THEN LET filled == Min(MaxTokens, tok + add)
           d == Drain(filled, q, <<>>)
       IN [tokens |-> d.tokens, lastRefill |-> last, queue |-> d.queue,
           resumed |-> d.resumed, filled |-> filled]
  ELSE [tokens |-> tok, lastRefill |-> last, queue |-> q,
        resumed |-> <<>>, filled |-> tok]

\* refill() as a function of the fields and the clock
Refill(tok, last, q, t) ==
  LET add == TokensToAdd(t, last) IN
  IF add > 0
  THEN LET filled == Min(MaxTokens, tok + add)
           d == Drain(filled, q, <<>>)
       IN [tokens |-> d.tokens, lastRefill |-> t, queue |-> d.queue,
           resumed |-> d.resumed, filled |-> filled]
  ELSE [tokens |-> tok, lastRefill |-> last, queue |-> q,
        resumed |-> <<>>, filled |-> tok]

Range(s) == {s[i] : i \in 1..Len(s)}

RECURSIVE Repeat(_, _)
Repeat(x, n) == IF n = 0 THEN <<>> ELSE <<x>> \o Repeat(x, n - 1)

Obs(op, r, imm, tokAfter, rep) ==
  [op |-> op, resumed |-> r.resumed, immediate |-> imm,
   decs |-> r.filled - tokAfter, reported |-> rep,
   preTokens |-> tokens, preLast |-> lastRefill, preQueue |-> queue]

\* constructor
RLInit ==
  /\ tokens = MaxTokens
  /\ lastRefill = 0
  /\ queue = <<>>
  /\ now = 0
  /\ callerState = [c \in Callers |-> "idle"]
  /\ lastOp = [op |-> "init", resumed |-> <<>>, immediate |-> {},
               decs |-> 0, reported |-> -1,
               preTokens |-> MaxTokens, preLast |-> 0, preQueue |-> <<>>]
  /\ admitTimes = <<>>
  /\ idleSince = 0
  /\ idleTokens = MaxTokens
  /\ idleWaiting = 0

\* acquire() called by caller c, the synchronous part up to the return or
\* the queued promise: the effect on the fields and on the callers
AcquireCore(c) ==
  /\ callerState[c] = "idle"
  /\ LET r == Refill(tokens, lastRefill, queue, now)
         admit == r.tokens > 0
     IN /\ tokens' = IF admit THEN r.tokens - 1 ELSE r.tokens
        /\ lastRefill' = r.lastRefill
        /\ queue' = IF admit THEN r.queue ELSE Append(r.queue, c)
        /\ callerState' = [x \in Callers |->
                             IF x \in Range(r.resumed) THEN "idle"
                             ELSE IF x = c /\ ~admit THEN "waiting"
                             ELSE callerState[x]]
  /\ UNCHANGED now

\* acquire() together with the observation of the operation
AcquireOp(c) ==
  /\ AcquireCore(c)
  /\ LET r == Refill(tokens, lastRefill, queue, now)
         admit == r.tokens > 0
     IN /\ lastOp' = Obs("acquire", r, IF admit THEN {c} ELSE {}, tokens', -1)
        /\ admitTimes' = admitTimes \o
                           Repeat(now, Len(r.resumed) + (IF admit THEN 1 ELSE 0))
        /\ idleSince' = now
        /\ idleTokens' = tokens'
        /\ idleWaiting' = Len(queue')

Acquire(c) == AcquireOp(c) /\ UNCHANGED <<run, hd, svcVars, crawlVars>>

\* getAvailableTokens(): the effect on the fields and on the callers
GetAvailableTokensCore ==
  /\ LET r == Refill(tokens, lastRefill, queue, now)
     IN /\ tokens' = r.tokens
        /\ lastRefill' = r.lastRefill
        /\ queue' = r.queue
        /\ callerState' = [x \in Callers |->
                             IF x \in Range(r.resumed) THEN "idle"
                             ELSE callerState[x]]
  /\ UNCHANGED now

\* getAvailableTokens() together with the observation of the operation
GetAvailableTokensOp ==
  /\ GetAvailableTokensCore
  /\ LET r == Refill(tokens, lastRefill, queue, now)
     IN /\ lastOp' = Obs("get", r, {}, r.tokens, r.tokens)
        /\ admitTimes' = admitTimes \o Repeat(now, Len(r.resumed))
  /\ UNCHANGED <<idleSince, idleTokens, idleWaiting>>

GetAvailableTokens == GetAvailableTokensOp /\ UNCHANGED <<run, hd, svcVars, crawlVars>>

\* reset()
Reset ==
  /\ tokens' = MaxTokens
  /\ lastRefill' = now
  /\ queue' = <<>>
  /\ callerState' = [x \in Callers |->
                       IF callerState[x] = "waiting" THEN "dropped"
                       ELSE callerState[x]]
  /\ lastOp' = [op |-> "reset", resumed |-> <<>>, immediate |-> {},
                decs |-> 0, reported |-> -1,
                preTokens |-> tokens, preLast |-> lastRefill,
                preQueue |-> queue]
  /\ admitTimes' = <<>>
  /\ idleSince' = now
  /\ idleTokens' = MaxTokens
  /\ idleWaiting' = 0
  /\ UNCHANGED <<now, run, hd, svcVars, crawlVars>>

\* the clock advances by one millisecond
TickOp ==
  /\ now < MaxTime
  /\ now' = now + 1
  /\ lastOp' = [lastOp EXCEPT !.op = "tick"]
  /\ UNCHANGED <<tokens, lastRefill, queue, callerState, admitTimes,
                 idleSince, idleTokens, idleWaiting>>

Tick == TickOp /\ UNCHANGED <<run, hd, svcVars, crawlVars>>

\* ------------------------------------------------------ generation pipeline

SeqsUpTo(S, n) == UNION {[1..k -> S] : k \in 0..n}


\* sources[i] is FALSE for a falsy array entry (skipped by `continue`)
SourceLists == SeqsUpTo(BOOLEAN, MaxSources)

Endpoints == {"stream", "sync"}

\* modules.forEach(m => m.sections.forEach(s => totalLessons += ...))
RECURSIVE SumSeq(_)
SumSeq(q) == IF q = <<>> THEN 0 ELSE Head(q) + SumSeq(Tail(q))

RECURSIVE TotalLessons(_)
TotalLessons(mods) ==
  IF mods = <<>> THEN 0 ELSE SumSeq(Head(mods)) + TotalLessons(Tail(mods))

\* a module list as returned by generateCourseStructure: modules[m][s] is
\* the number of lessons of section s of module m
Shapes ==
  {mods \in SeqsUpTo(SeqsUpTo(0..MaxLessons, MaxSections), MaxModules) :
     TotalLessons(mods) <= MaxTotalLessons}

\* the lesson keys module_<m>_section_<s>_lesson_<l> in the order of the
\* three nested for-loops (indices are 0-based as in the code)
RECURSIVE SectionLoop(_, _, _)
SectionLoop(m, secs, s) ==
  IF s > Len(secs) THEN <<>>
  ELSE [l \in 1..secs[s] |-> <<m, s - 1, l - 1>>] \o SectionLoop(m, secs, s + 1)

RECURSIVE ModuleLoop(_, _)
ModuleLoop(mods, m) ==
  IF m > Len(mods) THEN <<>>
  ELSE SectionLoop(m - 1, mods[m], 1) \o ModuleLoop(mods, m + 1)

\* variant: the loops run from the last lesson to the first
LessonKeys_Reversed(mods) ==
  [i \in 1..Len(ModuleLoop(mods, 1)) |->
     ModuleLoop(mods, 1)[Len(ModuleLoop(mods, 1)) + 1 - i]]

LessonKeys(mods) == ModuleLoop(mods, 1)

NoRequest == [endpoint |-> "none", sources |-> <<>>, hasTitle |-> FALSE,
              includeAudio |-> FALSE]

\* before a request has arrived
PipeInit ==
  run = [pc |-> "idle", req |-> NoRequest,
         progress |-> [phase |-> "none", current |-> 0, total |-> 0],
         events |-> <<>>, calls |-> <<>>, modules |-> <<>>,
         srcIdx |-> 0, lessonIdx |-> 0,
         scripts |-> {}, audioFiles |-> {}, scriptFailed |-> {},
         responseForm |-> "none", course |-> <<>>, outcome |-> "none",
         connected |-> TRUE, callsAtClose |-> 0]

\* sendEvent(data): written to the response of the streaming endpoints only
Send(r, type) ==
  IF r.req.endpoint = "stream"
  THEN [r EXCEPT !.events =
          Append(@, [type |-> type, phase |-> r.progress.phase,
                     current |-> r.progress.current,
                     total |-> r.progress.total])]
  ELSE r

\* a call to a collaborator is issued / has returned or thrown
CallStart(r, op, idx) ==
  [r EXCEPT !.calls = Append(@, [op |-> op, idx |-> idx, ev |-> "start",
                                 sent |-> Len(r.events)])]

CallEnd(r, ok) ==
  [r EXCEPT !.calls = Append(@, [op |-> r.calls[Len(r.calls)].op,
                                 idx |-> r.calls[Len(r.calls)].idx,
                                 ev |-> IF ok THEN "ok" ELSE "fail",
                                 sent |-> Len(r.events)])]

\* the catch block of the handler (and the validation failures): the error
\* message / error response is the terminal output
Abort(r) ==
  [Send(r, "error") EXCEPT !.pc = "failed", !.outcome = "error"]

\* variant: the final result is sent without the completed progress event
Complete_NoCompletedEvent(r) ==
  LET p == [r EXCEPT !.progress.phase = "completed"]
  IN [Send(p, "success") EXCEPT !.pc = "done", !.outcome = "success"]

\* progress.phase = 'completed'; sendEvent({progress}); final result
Complete(r) ==
  LET p == [r EXCEPT !.progress.phase = "completed"]
  IN [Send(Send(p, "progress"), "success") EXCEPT
        !.pc = "done", !.outcome = "success"]

\* const course = {metadata, modules, ...};
\* const summary = await geminiService.generateCourseSummary(...)
BeginSummary(r) ==
  [CallStart(r, "summary", 0) EXCEPT !.pc = "summarizing",
                                     !.course = r.modules]

\* variant: progress.current is not incremented
BeginLesson_NoIncrement(r, k) ==
  IF k > Len(LessonKeys(r.modules))
  THEN BeginSummary(r)
  ELSE LET p == [r EXCEPT !.lessonIdx = k]
       IN [CallStart(Send(p, "progress"), "script", k) EXCEPT
             !.pc = "scripting"]

\* one iteration of the lesson loop up to the generateLessonScript call,
\* or the statements after the loop
BeginLesson(r, k) ==
  IF k > Len(LessonKeys(r.modules))
  THEN BeginSummary(r)
  ELSE LET p == [r EXCEPT !.progress.current = @ + 1, !.lessonIdx = k]
       IN [CallStart(Send(p, "progress"), "script", k) EXCEPT
             !.pc = "scripting"]

\* variant: the structure call is issued before the event is sent
BeginGenerating_CallFirst(r) ==
  LET p == [r EXCEPT !.progress.phase = "generating"]
  IN [Send(CallStart(p, "structure", 0), "progress") EXCEPT
        !.pc = "generating"]

\* progress.phase = 'generating'; sendEvent; generateCourseStructure(...)
BeginGenerating(r) ==
  LET p == [r EXCEPT !.progress.phase = "generating"]
  IN [CallStart(Send(p, "progress"), "structure", 0) EXCEPT
        !.pc = "generating"]

\* the extraction loop from index i up to its next extractContent call,
\* or the statements after the loop
RECURSIVE BeginExtract(_, _)
BeginExtract(r, i) ==
  IF i > Len(r.req.sources)
  THEN BeginGenerating(r)
  ELSE LET p == Send([r EXCEPT !.progress.current = i, !.srcIdx = i],
                     "progress")
       IN IF r.req.sources[i]
          THEN [CallStart(p, "extract", i) EXCEPT !.pc = "extracting"]
          ELSE BeginExtract(p, i + 1)

\* variant: the course title is not required
ValidRequest_TitleOptional(sources, hasTitle) == Len(sources) # 0

\* !sources || sources.length === 0 and !metadata.course_title both end the
\* handler (error event and return, or a thrown VALIDATION_ERROR)
ValidRequest(sources, hasTitle) == Len(sources) # 0 /\ hasTitle

\* the handler from its entry to its first await
Request(endpoint, sources, hasTitle, includeAudio) ==
  /\ run.pc = "idle"
  /\ LET r == [run EXCEPT !.req = [endpoint |-> endpoint,
                                   sources |-> sources,
                                   hasTitle |-> hasTitle,
                                   includeAudio |-> includeAudio]]
     IN IF ~ValidRequest(sources, hasTitle)
        THEN run' = Abort(r)
        ELSE LET p == Send([r EXCEPT !.progress =
                              [phase |-> "initializing", current |-> 0,
                               total |-> Len(sources)]], "progress")
             IN run' = BeginExtract([p EXCEPT !.progress.phase = "extracting"],
                                    1)
  /\ UNCHANGED <<rlVars, crawlVars, hd, svcVars>>

\* contextAgent.extractContent(source, ...) returns or throws
ExtractReturn(ok) ==
  /\ run.pc = "extracting"
  /\ run' = IF ok THEN BeginExtract(CallEnd(run, TRUE), run.srcIdx + 1)
            ELSE Abort(CallEnd(run, FALSE))
  /\ UNCHANGED <<rlVars, crawlVars, hd, svcVars>>

\* the text of the model's response, by what parseCourseStructure finds in
\* it: no {...} block, a block JSON.parse rejects, an object without
\* `modules`, an object whose `modules` is not an array, or an object with
\* a modules array
MalformedForms == {"no_json", "invalid_json", "no_modules", "modules_not_array"}

ResponseTexts ==
  {[form |-> f, modules |-> <<>>] : f \in MalformedForms}
    \cup {[form |-> "modules_array", modules |-> mods] : mods \in Shapes}

\* variant: a malformed response is taken as an empty course
ParseCourseStructure_Lenient(text) == [ok |-> TRUE, modules |-> text.modules]

\* parseCourseStructure: the modules, or the PARSE_ERROR AppError
ParseCourseStructure(text) ==
  IF text.form = "modules_array"
  THEN [ok |-> TRUE, modules |-> text.modules]
  ELSE [ok |-> FALSE, modules |-> <<>>]

\* geminiService.generateCourseStructure(...): generateContent throws, or
\* returns the text that parseCourseStructure reads; the handler goes on
\* with the modules or ends in its catch block
StructureReturn(apiOk, text) ==
  /\ run.pc = "generating"
  /\ LET parsed == ParseCourseStructure(text)
         r == [run EXCEPT !.responseForm = IF apiOk THEN text.form ELSE "throw"]
     IN run' = IF apiOk /\ parsed.ok
               THEN BeginLesson(
                      [CallEnd(r, TRUE) EXCEPT
                         !.modules = parsed.modules,
                         !.progress = [phase |-> "processing", current |-> 0,
                                       total |-> TotalLessons(parsed.modules)]],
                      1)
               ELSE Abort(CallEnd(r, FALSE))
  /\ UNCHANGED <<rlVars, crawlVars, hd, svcVars>>

\* variant: the audio call is issued but not awaited
AfterScript_AudioNotAwaited(r) ==
  IF r.req.includeAudio
  THEN BeginLesson(CallStart(r, "audio", r.lessonIdx), r.lessonIdx + 1)
  ELSE BeginLesson(r, r.lessonIdx + 1)

\* after the script of lesson k: the audio call if requested, else the next
\* iteration
AfterScript(r) ==
  IF r.req.includeAudio
  THEN [CallStart(r, "audio", r.lessonIdx) EXCEPT !.pc = "narrating"]
  ELSE BeginLesson(r, r.lessonIdx + 1)

\* variant: a failed script call is logged and the loop goes on
ScriptFailure_Isolated(r) ==
  AfterScript([r EXCEPT
                 !.scriptFailed = @ \cup {LessonKeys(r.modules)[r.lessonIdx]}])

\* a throwing generateLessonScript: not caught in the streaming handlers,
\* caught, logged and rethrown in the non-streaming one
ScriptFailure(r) ==
  Abort([r EXCEPT
           !.scriptFailed = @ \cup {LessonKeys(r.modules)[r.lessonIdx]}])

\* geminiService.generateLessonScript(...) returns or throws
ScriptReturn(ok) ==
  /\ run.pc = "scripting"
  /\ run' = IF ok
            THEN AfterScript(
                   [CallEnd(run, TRUE) EXCEPT
                      !.scripts = @ \cup {LessonKeys(run.modules)[run.lessonIdx]}])
            ELSE ScriptFailure(CallEnd(run, FALSE))
  /\ UNCHANGED <<rlVars, crawlVars, hd, svcVars>>

\* variant: the audio calls are not wrapped in try/catch
AfterAudio_FailureAborts(r, ok) ==
  IF ok
  THEN BeginLesson(
         [r EXCEPT !.audioFiles = @ \cup {LessonKeys(r.modules)[r.lessonIdx]}],
         r.lessonIdx + 1)
  ELSE Abort(r)

\* the try/catch around the audio calls: audioFiles.set(lessonKey, ...) on
\* success, console.error on failure, then the next iteration
AfterAudio(r, ok) ==
  BeginLesson(
    [r EXCEPT !.audioFiles = IF ok
                             THEN @ \cup {LessonKeys(r.modules)[r.lessonIdx]}
                             ELSE @],
    r.lessonIdx + 1)

\* audioService.generateAudioFromText + readFileAsBase64 return or throw
AudioReturn(ok) ==
  /\ run.pc = "narrating"
  /\ run' = AfterAudio(CallEnd(run, ok), ok)
  /\ UNCHANGED <<rlVars, crawlVars, hd, svcVars>>

\* geminiService.generateCourseSummary(...) returns or throws
SummaryReturn(ok) ==
  /\ run.pc = "summarizing"
  /\ run' = IF ok THEN Complete(CallEnd(run, TRUE))
            ELSE Abort(CallEnd(run, FALSE))
  /\ UNCHANGED <<rlVars, crawlVars, hd, svcVars>>

\* the consumer of the event stream closes the connection while the
\* handler is suspended in an await; the handlers register no 'close'
\* listener and test no flag, so only the socket's state changes
Disconnect ==
  /\ run.req.endpoint = "stream"
  /\ run.pc \in {"extracting", "generating", "scripting", "narrating",
                 "summarizing"}
  /\ run.connected
  /\ run' = [run EXCEPT !.connected = FALSE, !.callsAtClose = Len(run.calls)]
  /\ UNCHANGED <<rlVars, crawlVars, hd, svcVars>>

NextPipe ==
  \/ /\ run.pc = "idle"
     /\ \E e \in Endpoints, srcs \in SourceLists, t \in BOOLEAN,
           a \in BOOLEAN : Request(e, srcs, t, a)
  \/ \E ok \in BOOLEAN : ExtractReturn(ok)
  \/ /\ run.pc = "generating"
     /\ \E ok \in BOOLEAN, text \in ResponseTexts : StructureReturn(ok, text)
  \/ \E ok \in BOOLEAN : ScriptReturn(ok)
  \/ \E ok \in BOOLEAN : AudioReturn(ok)
  \/ \E ok \in BOOLEAN : SummaryReturn(ok)

\* ------------------------------------------------------ WebCrawlerService

CrawlCalls == 1..NumCrawlCalls
\* the URLs passed to direct crawlUrl calls, and all URLs of the web
Urls == 1..NumUrls
Pages == 1..NumPages
Versions == 1..NumVersions

\* a string that `new URL(url)` rejects
InvalidUrl == NumPages + 1
\* null / undefined in place of a CrawlResult
NoEntry == [url |-> InvalidUrl, ver |-> 0]

\* a pattern is represented by the set of URLs its RegExp matches
DefaultSettings == [excludePatterns |-> <<>>, includeOnlyPatterns |-> <<>>]

SettingsSet ==
  { DefaultSettings,
    [excludePatterns |-> <<{1}>>, includeOnlyPatterns |-> <<>>],
    [excludePatterns |-> <<>>, includeOnlyPatterns |-> <<{}>>] }

\* a call that is not running.  Fields of a running call: url, settings
\* (arguments); result (the local `result`); afterSuccess (the URL was in
\* crawledUrls when the call began and the session has not been cleared
\* since)
IdleCall == [pc |-> "idle", url |-> InvalidUrl, settings |-> DefaultSettings,
             result |-> NoEntry, afterSuccess |-> FALSE]

\* no call returned in the last step
NoReturn == [call |-> 0, url |-> InvalidUrl, settings |-> DefaultSettings,
             afterSuccess |-> FALSE, cached |-> NoEntry, result |-> NoEntry,
             error |-> "none"]

\* a call returns res (error "none") or throws err (res is NoEntry);
\* k holds its arguments, cached is the value of its local `cached`
Returned(c, k, cached, res, err) ==
  [call |-> c, url |-> k.url, settings |-> k.settings,
   afterSuccess |-> k.afterSuccess, cached |-> cached,
   result |-> res, error |-> err]

\* field initialisers and constructor of WebCrawlerService; the cache
\* backend starts empty and connected
CrawlInit ==
  /\ crawledUrls = {}
  /\ cache = [u \in Pages |-> NoEntry]
  /\ isConnected = TRUE
  /\ httpCount = [u \in Pages |-> 0]
  /\ crawl = [c \in CrawlCalls |-> IdleCall]
  /\ lastReturn = NoReturn

\* isUrlAllowed: some pattern of the list matches the URL
AnyMatch(patterns, u) == \E i \in DOMAIN patterns : u \in patterns[i]

IsUrlAllowed(u, st) ==
  IF Len(st.excludePatterns) > 0 /\ AnyMatch(st.excludePatterns, u)
  THEN FALSE
  ELSE IF Len(st.includeOnlyPatterns) > 0
       THEN AnyMatch(st.includeOnlyPatterns, u)
       ELSE TRUE

\* ------------------------------------------- crawlMultipleUrls: operators

BatchCalls == 1..NumBatchCalls

\* new URL(u).hostname: the last page lives on another host than the rest
Host(u) == IF u = NumPages THEN "b" ELSE "a"
Hosts == {Host(u) : u \in Pages}

\* the links extractLinks finds on a page: version 1 of a page of host "a"
\* links to the page of host "b", to itself and to the next two pages of
\* its host (a cycle); any other version has no links
NextPage(u) == (u % (NumPages - 1)) + 1

PageLinks(u) ==
  IF u = NumPages
  THEN <<1>>
  ELSE <<NumPages, u, NextPage(u), NextPage(NextPage(u))>>

LinksOf(res) == IF res.ver = 1 THEN PageLinks(res.url) ELSE <<>>

\* CrawlSettings as crawlMultipleUrls reads them
BatchSettingsSet ==
  { [excludePatterns |-> st.excludePatterns,
     includeOnlyPatterns |-> st.includeOnlyPatterns,
     maxDepth |-> d, maxPagesPerDomain |-> m] :
      st \in SettingsSet, d \in 1..MaxDepthSetting, m \in 1..MaxPagesSetting }

SeedLists == UNION {[1..k -> Pages \cup {InvalidUrl}] : k \in 0..MaxSeeds}

NoItem == [url |-> InvalidUrl, depth |-> 0]

\* a call that is not running.  Fields of a running call: seeds, settings
\* (arguments); cur (currentUrl); results, processedCount (locals); and as
\* observations: crawled (the entries passed to crawlUrl, in order), errors
\* (the number of console.error lines of the catch block), appends (per
\* push on the queue, the page it came from and the URLs pushed)
IdleBatch ==
  [pc |-> "idle", seeds |-> <<>>,
   settings |-> [excludePatterns |-> <<>>, includeOnlyPatterns |-> <<>>,
                 maxDepth |-> 1, maxPagesPerDomain |-> 1],
   cur |-> NoItem, results |-> <<>>,
   processedCount |-> [h \in Hosts |-> 0],
   crawled |-> <<>>, errors |-> 0, appends |-> <<>>]

\* urlQueue's field initialiser; no crawlMultipleUrls call is running
BatchInit ==
  /\ urlQueue = <<>>
  /\ batch = [b \in BatchCalls |-> IdleBatch]

\* variant: the cap is one page larger
PageCap_PlusOne(st) == st.maxPagesPerDomain + 1

\* crawlSettings.maxPagesPerDomain, the bound of both the loop test and the
\* per-domain test
PageCap(st) == st.maxPagesPerDomain

\* the while loop from its test up to the crawlUrl call ("crawl"), the
\* return ("return") or the TypeError of new URL(currentUrl) ("throw")
RECURSIVE Dequeue(_, _)
Dequeue(q, bk) ==
  IF ~(Len(q) > 0 /\ Len(bk.results) < PageCap(bk.settings))
  THEN [kind |-> "return", queue |-> q, cur |-> NoItem]
  ELSE LET cur == Head(q)
       IN IF cur.url \in crawledUrls
          THEN Dequeue(Tail(q), bk)
          ELSE IF cur.url = InvalidUrl
          THEN [kind |-> "throw", queue |-> Tail(q), cur |-> cur]
          ELSE IF bk.processedCount[Host(cur.url)] >= PageCap(bk.settings)
          THEN Dequeue(Tail(q), bk)
          ELSE [kind |-> "crawl", queue |-> Tail(q), cur |-> cur]

\* filterValidUrls
FilterValidUrls(links, sourceUrl, st) ==
  SelectSeq(links, LAMBDA l : /\ l \in Pages
                              /\ Host(l) = Host(sourceUrl)
                              /\ IsUrlAllowed(l, st))

\* s.slice(0, n)
Slice(s, n) == SubSeq(s, 1, Min(Len(s), n))

\* the URLs pushed on the queue after crawlUrl returned ret
NewUrls(bk, ret) ==
  IF ret.error = "none" /\ bk.settings.maxDepth > 1
  THEN Slice(FilterValidUrls(LinksOf(ret.result), bk.cur.url, bk.settings),
             LinkSliceCap)
  ELSE <<>>

\* the loop body after `await this.crawlUrl(...)`: the result is recorded
\* and the delay begins, or the catch block logs the error
Absorb(bk, ret) ==
  IF ret.error = "none"
  THEN [bk EXCEPT !.pc = "delay",
                  !.results = Append(@, ret.result),
                  !.processedCount[Host(bk.cur.url)] = @ + 1,
                  !.appends = IF bk.settings.maxDepth > 1
                              THEN Append(@, [from |-> bk.cur,
                                              urls |-> NewUrls(bk, ret)])
                              ELSE @]
  ELSE [bk EXCEPT !.pc = "caught", !.errors = @ + 1]

\* the crawlUrl call c has just returned or thrown (lastReturn'): when a
\* crawlMultipleUrls call awaits it, that call takes the outcome.  B and q
\* are the calls and the queue as the step has left them so far.
Deliver(B, q, c) ==
  IF lastReturn'.call = c /\ c \in BatchCalls /\ B[c].pc = "crawling"
  THEN /\ batch' = [B EXCEPT ![c] = Absorb(B[c], lastReturn')]
       /\ urlQueue' =
            q \o [i \in 1..Len(NewUrls(B[c], lastReturn')) |->
                    [url |-> NewUrls(B[c], lastReturn')[i],
                     depth |-> B[c].cur.depth + 1]]
  ELSE /\ batch' = B
       /\ urlQueue' = q

\* CacheService.get once the command has completed: null when the command
\* errors or when the key is absent
CacheGet(redisOk, u) == IF redisOk THEN cache[u] ELSE NoEntry

\* variant: the cached entry is ignored
UseCached_Never(v) == FALSE

\* crawlUrl: `if (cached) return cached`
UseCached(v) == v # NoEntry

\* variant: the session check is missing
AlreadyCrawled_Never(u) == FALSE

\* crawlUrl: this.crawledUrls.has(url)
AlreadyCrawled(u) == u \in crawledUrls

\* acquire() would return at once (a token is left after refill)
AcquireAdmits == Refill(tokens, lastRefill, queue, now).tokens > 0

\* axios.get(url, ...) is issued
IssueGet(u) ==
  httpCount' = [httpCount EXCEPT ![u] = Min(@ + 1, HttpCountCap)]

\* crawlUrl from the value v of `cached` to the next await: the cached
\* result is returned, or the checks run and acquire() is called; when the
\* token is granted at once the GET is issued.  k is the record of call c.
AfterCacheGet(c, k, v) ==
  IF UseCached(v)
  THEN /\ lastReturn' = Returned(c, k, v, v, "none")
       /\ crawl' = [crawl EXCEPT ![c] = IdleCall]
       /\ UNCHANGED <<rlCore, httpCount>>
  ELSE IF AlreadyCrawled(k.url)
  THEN /\ lastReturn' = Returned(c, k, v, NoEntry, "already_crawled")
       /\ crawl' = [crawl EXCEPT ![c] = IdleCall]
       /\ UNCHANGED <<rlCore, httpCount>>
  ELSE IF ~IsUrlAllowed(k.url, k.settings)
  THEN /\ lastReturn' = Returned(c, k, v, NoEntry, "not_allowed")
       /\ crawl' = [crawl EXCEPT ![c] = IdleCall]
       /\ UNCHANGED <<rlCore, httpCount>>
  ELSE /\ AcquireCore(c)
       /\ IF AcquireAdmits
          THEN /\ crawl' = [crawl EXCEPT ![c] = [k EXCEPT !.pc = "http"]]
               /\ IssueGet(k.url)
          ELSE /\ crawl' = [crawl EXCEPT ![c] = [k EXCEPT !.pc = "waitToken"]]
               /\ UNCHANGED httpCount
       /\ lastReturn' = NoReturn

\* crawlUrl(url, settings) from its entry to its first suspension: the URL
\* is validated and cacheService.get is called, which returns null at once
\* when the backend is not connected
CrawlUrlStartCore(c, u, st) ==
  /\ crawl[c].pc = "idle"
  /\ LET k == [IdleCall EXCEPT !.pc = "cacheGet", !.url = u, !.settings = st,
                               !.afterSuccess = (u \in crawledUrls)]
     IN IF u = InvalidUrl
        THEN /\ lastReturn' = Returned(c, k, NoEntry, NoEntry, "invalid_url")
             /\ UNCHANGED <<crawl, rlCore, httpCount>>
        ELSE IF ~isConnected
        THEN AfterCacheGet(c, k, NoEntry)
        ELSE /\ crawl' = [crawl EXCEPT ![c] = k]
             /\ lastReturn' = NoReturn
             /\ UNCHANGED <<rlCore, httpCount>>
  /\ UNCHANGED <<rlObs, run, hd, svcVars, crawledUrls, cache, isConnected>>

CrawlUrlStart(c, u, st) ==
  /\ CrawlUrlStartCore(c, u, st)
  /\ Deliver(batch, urlQueue, c)

\* the cache read completes
CacheGetReturn(c, redisOk) ==
  /\ crawl[c].pc = "cacheGet"
  /\ AfterCacheGet(c, crawl[c], CacheGet(redisOk, crawl[c].url))
  /\ Deliver(batch, urlQueue, c)
  /\ UNCHANGED <<rlObs, run, hd, svcVars, crawledUrls, cache, isConnected>>

\* the queued acquire() was resolved by a later refill: the GET is issued
HttpIssue(c) ==
  /\ crawl[c].pc = "waitToken"
  /\ callerState[c] = "idle"
  /\ crawl' = [crawl EXCEPT ![c].pc = "http"]
  /\ IssueGet(crawl[c].url)
  /\ lastReturn' = NoReturn
  /\ UNCHANGED <<rlVars, run, hd, svcVars, crawledUrls, cache, isConnected, batchVars>>

HttpOutcomes == {"ok", "not_found", "timeout", "network"}

\* variant: the URL is added to crawledUrls whatever the outcome of the GET
HttpReturn_AddsOnFailure(c, outcome, ver) ==
  /\ crawl[c].pc = "http"
  /\ crawledUrls' = crawledUrls \cup {crawl[c].url}
  /\ LET res == [url |-> crawl[c].url, ver |-> ver]
     IN IF outcome = "ok"
        THEN IF isConnected
             THEN /\ crawl' = [crawl EXCEPT ![c].pc = "cacheSet",
                                            ![c].result = res]
                  /\ lastReturn' = NoReturn
             ELSE /\ crawl' = [crawl EXCEPT ![c] = IdleCall]
                  /\ lastReturn' = Returned(c, crawl[c], NoEntry, res, "none")
        ELSE /\ lastReturn' =
                  Returned(c, crawl[c], NoEntry, NoEntry, outcome)
             /\ crawl' = [crawl EXCEPT ![c] = IdleCall]
  /\ Deliver(batch, urlQueue, c)
  /\ UNCHANGED <<rlVars, run, hd, svcVars, cache, isConnected, httpCount>>

\* axios.get returns or throws.  On success: extractContent,
\* crawledUrls.add and cacheService.set, which returns false at once when
\* the backend is not connected
HttpReturn(c, outcome, ver) ==
  /\ crawl[c].pc = "http"
  /\ LET res == [url |-> crawl[c].url, ver |-> ver]
     IN IF outcome = "ok"
        THEN /\ crawledUrls' = crawledUrls \cup {crawl[c].url}
             /\ IF isConnected
                THEN /\ crawl' = [crawl EXCEPT ![c].pc = "cacheSet",
                                               ![c].result = res]
                     /\ lastReturn' = NoReturn
                ELSE /\ crawl' = [crawl EXCEPT ![c] = IdleCall]
                     /\ lastReturn' =
                          Returned(c, crawl[c], NoEntry, res, "none")
        ELSE /\ lastReturn' =
                  Returned(c, crawl[c], NoEntry, NoEntry, outcome)
             /\ crawl' = [crawl EXCEPT ![c] = IdleCall]
             /\ UNCHANGED crawledUrls
  /\ Deliver(batch, urlQueue, c)
  /\ UNCHANGED <<rlVars, run, hd, svcVars, cache, isConnected, httpCount>>

\* the cache write completes (stored or failed): crawlUrl returns the result
CacheSetReturn(c, redisOk) ==
  /\ crawl[c].pc = "cacheSet"
  /\ cache' = IF redisOk
              THEN [cache EXCEPT ![crawl[c].url] = crawl[c].result]
              ELSE cache
  /\ lastReturn' = Returned(c, crawl[c], NoEntry, crawl[c].result, "none")
  /\ crawl' = [crawl EXCEPT ![c] = IdleCall]
  /\ Deliver(batch, urlQueue, c)
  /\ UNCHANGED <<rlVars, run, hd, svcVars, crawledUrls, isConnected, httpCount>>

\* clearCache(): a new crawl session begins
ClearCache ==
  /\ crawledUrls' = {}
  /\ httpCount' = [u \in Pages |-> 0]
  /\ crawl' = [c \in CrawlCalls |-> [crawl[c] EXCEPT !.afterSuccess = FALSE]]
  /\ lastReturn' = NoReturn
  /\ urlQueue' = <<>>
  /\ UNCHANGED <<rlVars, run, hd, svcVars, cache, isConnected, batch>>

\* getStats(): rateLimiter.getAvailableTokens()
GetStats ==
  /\ GetAvailableTokensCore
  /\ lastReturn' = NoReturn
  /\ UNCHANGED <<rlObs, run, hd, svcVars, crawledUrls, cache, isConnected, httpCount,
                 crawl, batchVars>>

\* the entry of a URL expires (TTL) or is deleted from the backend
CacheExpire(u) ==
  /\ cache[u] # NoEntry
  /\ cache' = [cache EXCEPT ![u] = NoEntry]
  /\ lastReturn' = NoReturn
  /\ UNCHANGED <<rlVars, run, hd, svcVars, crawledUrls, isConnected, httpCount, crawl,
                 batchVars>>

\* Redis 'connect' / 'error' / 'close' events
CacheConnectionChange ==
  /\ isConnected' = ~isConnected
  /\ lastReturn' = NoReturn
  /\ UNCHANGED <<rlVars, run, hd, svcVars, crawledUrls, cache, httpCount, crawl,
                 batchVars>>

\* a whole refill window passes.  The crawler sees the limiter only through
\* the tokens it grants, and refill() adds tokens only once a whole window
\* has elapsed, so shorter steps of the clock add no behaviour here.
WindowPasses ==
  /\ now < CrawlWindows * RefillInterval
  /\ now' = now + RefillInterval
  /\ lastReturn' = NoReturn
  /\ UNCHANGED <<tokens, lastRefill, queue, callerState, rlObs, run, hd, svcVars,
                 crawledUrls, cache, isConnected, httpCount, crawl,
                 batchVars>>

NextCrawl ==
  \/ \E c \in CrawlCalls, u \in Urls \cup {InvalidUrl}, st \in SettingsSet :
       CrawlUrlStart(c, u, st)
  \/ \E c \in CrawlCalls, ok \in BOOLEAN : CacheGetReturn(c, ok)
  \/ \E c \in CrawlCalls : HttpIssue(c)
  \/ \E c \in CrawlCalls, o \in HttpOutcomes, v \in Versions :
       HttpReturn(c, o, v)
  \/ \E c \in CrawlCalls, ok \in BOOLEAN : CacheSetReturn(c, ok)
  \/ ClearCache
  \/ GetStats
  \/ \E u \in Urls : CacheExpire(u)
  \/ CacheConnectionChange
  \/ WindowPasses

\* -------------------------------------------- crawlMultipleUrls: actions

\* crawlMultipleUrls(b) runs its loop from the test to the next await: it
\* calls crawlUrl for the dequeued URL, or returns its results, or throws.
\* bk and q are the call's record and the queue at the loop test.
Iterate(b, bk, q) ==
  LET d == Dequeue(q, bk)
  IN IF d.kind = "crawl"
     THEN /\ CrawlUrlStartCore(b, d.cur.url, bk.settings)
          /\ Deliver([batch EXCEPT ![b] =
                        [bk EXCEPT !.pc = "crawling", !.cur = d.cur,
                                   !.crawled = Append(@, d.cur)]],
                     d.queue, b)
     ELSE /\ batch' = [batch EXCEPT ![b] =
                         [bk EXCEPT !.pc = IF d.kind = "return"
                                            THEN "returned" ELSE "thrown",
                                    !.cur = d.cur]]
          /\ urlQueue' = d.queue
          /\ lastReturn' = NoReturn
          /\ UNCHANGED <<rlVars, run, hd, svcVars, crawledUrls, cache, isConnected,
                         httpCount, crawl>>

\* crawlMultipleUrls(urls, settings) from its entry to its first await
BatchStart(b, seeds, st) ==
  /\ batch[b].pc = "idle"
  /\ Iterate(b, [IdleBatch EXCEPT !.seeds = seeds, !.settings = st],
             [i \in 1..Len(seeds) |-> [url |-> seeds[i], depth |-> 1]])

\* a crawlMultipleUrls call has caught a rejection of crawlUrl: its loop
\* goes on in the same turn of the event loop, before any timer or I/O
\* callback runs
MicrotaskPending == \E b \in BatchCalls : batch[b].pc = "caught"

\* the download delay has elapsed (a timer), or the catch block has logged
\* the error: the loop goes on
BatchContinue(b) ==
  /\ batch[b].pc \in {"delay", "caught"}
  /\ batch[b].pc = "delay" => ~MicrotaskPending
  /\ Iterate(b, batch[b], urlQueue)

\* one crawlMultipleUrls call at a time on the instance, with clearCache,
\* getStats and the clock around it
MainBatch == CHOOSE b \in BatchCalls : \A d \in BatchCalls : b <= d

NextBatch ==
  \/ BatchContinue(MainBatch)
  \/ /\ ~MicrotaskPending
     /\ \/ \E seeds \in SeedLists, st \in BatchSettingsSet :
             BatchStart(MainBatch, seeds, st)
        \/ \E ok \in BOOLEAN : CacheGetReturn(MainBatch, ok)
        \/ HttpIssue(MainBatch)
        \/ \E o \in HttpOutcomes, v \in Versions :
             HttpReturn(MainBatch, o, v)
        \/ \E ok \in BOOLEAN : CacheSetReturn(MainBatch, ok)
        \/ ClearCache
        \/ GetStats
        \/ WindowPasses

\* overlapping crawlMultipleUrls calls on the one instance (two requests
\* served by the webCrawler singleton), each with a single seed and no
\* patterns
PlainBatchSettings ==
  {st \in BatchSettingsSet :
     st.excludePatterns = <<>> /\ st.includeOnlyPatterns = <<>>}

NextOverlap ==
  \/ \E b \in BatchCalls : BatchContinue(b)
  \/ /\ ~MicrotaskPending
     /\ \/ \E b \in BatchCalls, u \in Pages, st \in PlainBatchSettings :
             BatchStart(b, <<u>>, st)
        \/ \E c \in BatchCalls, ok \in BOOLEAN : CacheGetReturn(c, ok)
        \/ \E c \in BatchCalls, o \in HttpOutcomes, v \in Versions :
             HttpReturn(c, o, v)
        \/ \E c \in BatchCalls, ok \in BOOLEAN : CacheSetReturn(c, ok)

\* ------------------------------------------------ ContextAgent: headings

\* a line of text is represented by the number of '#' characters its
\* trimmed form starts with (0: not a heading line); a heading by its
\* position in the flat list, with its level
Texts == UNION {[1..k -> 0..MaxMarkers] : k \in 0..MaxLines}

\* options.contextGranularity ("unset": the option is absent)
Granularities == {"unset", "L1_only", "L1_L2", "L1_L2_L3", "full_hierarchy"}

\* shouldIncludeLevel
ShouldIncludeLevel(level, granularity) ==
  CASE granularity = "L1_only" -> level = 1
    [] granularity = "L1_L2" -> level <= 2
    [] granularity = "L1_L2_L3" -> level <= 3
    [] granularity = "full_hierarchy" -> TRUE
    [] OTHER -> level <= 2

\* extractHeadings, the loop over the lines: the levels of the headings
\* pushed, in order
FlatHeadings(text, opt) ==
  LET granularity == IF opt = "unset" THEN "L1_L2" ELSE opt
  IN SelectSeq(text, LAMBDA markers :
                 markers > 0 /\ ShouldIncludeLevel(markers, granularity))

\* variant: only deeper headings are popped
ShouldPop_Strict(topLevel, level) == topLevel > level

\* buildHeadingHierarchy, the test of the while loop
ShouldPop(topLevel, level) == topLevel >= level

RECURSIVE PopStack(_, _, _)
PopStack(stack, levels, level) ==
  IF Len(stack) > 0 /\ ShouldPop(levels[stack[Len(stack)]], level)
  THEN PopStack(SubSeq(stack, 1, Len(stack) - 1), levels, level)
  ELSE stack

\* buildHeadingHierarchy from heading i on; st holds result (roots), the
\* children arrays and the stack
RECURSIVE BuildFrom(_, _, _)
BuildFrom(i, levels, st) ==
  IF i > Len(levels)
  THEN st
  ELSE LET stack == PopStack(st.stack, levels, levels[i])
           st1 == IF Len(stack) = 0
                  THEN [st EXCEPT !.roots = Append(@, i)]
                  ELSE [st EXCEPT !.children[stack[Len(stack)]] =
                                    Append(@, i)]
       IN BuildFrom(i + 1, levels, [st1 EXCEPT !.stack = Append(stack, i)])

BuildHeadingHierarchy(levels) ==
  BuildFrom(1, levels, [roots |-> <<>>, stack |-> <<>>,
                        children |-> [i \in 1..Len(levels) |-> <<>>]])

\* no call yet, and a call with its arguments
NoHeadingCall ==
  [pc |-> "idle", text |-> <<>>, granularity |-> "unset",
   headings |-> <<>>, roots |-> <<>>, children |-> <<>>,
   doc |-> <<>>, contents |-> <<>>]

HeadInit == hd = NoHeadingCall

HeadInputs ==
  hd \in {[NoHeadingCall EXCEPT !.pc = "input", !.text = t,
                               !.granularity = g] :
            t \in Texts, g \in Granularities}

\* extractHeadings(text, options): the headings are collected and the
\* hierarchy is built from them
ExtractHeadings ==
  /\ hd.pc = "input"
  /\ LET levels == FlatHeadings(hd.text, hd.granularity)
         tree == BuildHeadingHierarchy(levels)
     IN hd' = [hd EXCEPT !.pc = "done", !.headings = levels,
                         !.roots = tree.roots, !.children = tree.children]
  /\ UNCHANGED <<rlVars, run, crawlVars, svcVars>>

NextHeadings == ExtractHeadings

\* a line with its characters: leading whitespace or none, the number of
\* '#' characters that follow it, and the rest of the line; two lines are
\* the same string when the three agree
DocLines ==
  [indent : BOOLEAN, markers : 0..MaxDocMarkers, body : 1..NumBodies]

Docs == UNION {[1..k -> DocLines] : k \in 0..MaxDocLines}

\* line.trim() followed by startsWith('#') and match(/^#+/): the markers of
\* the trimmed line
TrimmedMarkers(line) == line.markers

\* line.match(/^#+/) on the line as it stands: no match (0) when the line
\* begins with whitespace
RawMarkers(line) == IF line.indent THEN 0 ELSE line.markers

\* lines.indexOf(line): the first index holding an equal string
IndexOf(lines, line) ==
  CHOOSE i \in DOMAIN lines :
    lines[i] = line /\ \A j \in 1..(i - 1) : lines[j] # line

\* the for loop of extractHeadingContent from line i on
RECURSIVE ContentFrom(_, _, _)
ContentFrom(lines, i, headingLevel) ==
  IF i > Len(lines) THEN <<>>
  ELSE IF RawMarkers(lines[i]) > 0 /\ RawMarkers(lines[i]) <= headingLevel
       THEN <<>>
       ELSE <<lines[i]>> \o ContentFrom(lines, i + 1, headingLevel)

\* extractHeadingContent(lines, startIndex): the lines collected (joined by
\* the caller's view into one string)
ExtractHeadingContent(lines, startIndex) ==
  LET headingLevel == IF RawMarkers(lines[startIndex]) = 0 THEN 1
                      ELSE RawMarkers(lines[startIndex])
  IN ContentFrom(lines, startIndex + 1, headingLevel)

\* the headings pushed by the loop of extractHeadings, each with the index
\* of its line, its level and its content
RECURSIVE HeadingsWithContent(_, _, _)
HeadingsWithContent(lines, i, granularity) ==
  IF i > Len(lines) THEN <<>>
  ELSE LET level == TrimmedMarkers(lines[i])
           rest == HeadingsWithContent(lines, i + 1, granularity)
       IN IF level > 0 /\ ShouldIncludeLevel(level, granularity)
          THEN <<[line |-> i, level |-> level,
                  content |-> ExtractHeadingContent(
                                lines, IndexOf(lines, lines[i]))]>> \o rest
          ELSE rest

DocInputs ==
  hd \in {[NoHeadingCall EXCEPT !.pc = "doc", !.doc = d,
                               !.granularity = g] :
            d \in Docs, g \in Granularities}

\* extractHeadings(text, options) with the content of every heading
ExtractDocHeadings ==
  /\ hd.pc = "doc"
  /\ LET text == [i \in DOMAIN hd.doc |-> TrimmedMarkers(hd.doc[i])]
         levels == FlatHeadings(text, hd.granularity)
         tree == BuildHeadingHierarchy(levels)
         granularity == IF hd.granularity = "unset" THEN "L1_L2"
                        ELSE hd.granularity
     IN hd' = [hd EXCEPT !.pc = "done", !.text = text, !.headings = levels,
                         !.roots = tree.roots, !.children = tree.children,
                         !.contents =
                           HeadingsWithContent(hd.doc, 1, granularity)]
  /\ UNCHANGED <<rlVars, run, crawlVars, svcVars>>

NextContent == ExtractDocHeadings

\* ------------------------------------------------------------ CacheService

\* course ids, as the database issues them, and the only user
IdNames == <<"c1", "c2", "c3">>
CourseIds == {IdNames[i] : i \in 1..NumCourses}
UserId == "u1"

\* a key or a glob pattern is the sequence of its parts; "*" is the
\* wildcard of the Redis KEYS command
CourseKey(id) == <<"course:", id>>
ListKey(u) == <<"course:", "list:", u, ":", "all">>
EnrollmentKey(u, id) == <<"enrollment:", u, ":", id>>

CacheKeySet ==
  {CourseKey(id) : id \in CourseIds} \cup {ListKey(UserId)}
    \cup {EnrollmentKey(UserId, id) : id \in CourseIds}

\* the patterns of CacheInvalidator.invalidateCourse(courseId, userId)
InvalidateCoursePatterns(id, u) ==
  << <<"course:", id, "*">>,
     <<"course:", "list:", "*">>,
     <<"course:", "search:", "*">>,
     <<"enrollment:", "*", ":", id, "*">>,
     <<"progress:", "*", ":", id, "*">>,
     <<"course:", "list:", u, ":", "*">>,
     <<"stats:", "learning:", u, ":", "*">> >>

PatternSet ==
  UNION {Range(InvalidateCoursePatterns(id, UserId)) : id \in CourseIds}

\* glob matching of KEYS: "*" stands for any run of parts, every other part
\* for itself
RECURSIVE GlobMatch(_, _)
GlobMatch(p, k) ==
  IF p = <<>> THEN k = <<>>
  ELSE IF Head(p) = "*"
       THEN \/ GlobMatch(Tail(p), k)
            \/ k # <<>> /\ GlobMatch(p, Tail(k))
       ELSE /\ k # <<>>
            /\ Head(k) = Head(p)
            /\ GlobMatch(Tail(p), Tail(k))

\* a row of the course table; `ver` stands for updatedAt
NoCourse ==
  [exists |-> FALSE, modules |-> <<>>, totalModules |-> 0, totalLessons |-> 0,
   ver |-> 0]

\* a cached value holds the rows that were read; NoValue is a missing key
\* (null)
Value(rows) == [present |-> TRUE, rows |-> rows]
NoValue == [present |-> FALSE, rows |-> [id \in CourseIds |-> NoCourse]]

SampleRow(n) == [NoCourse EXCEPT !.exists = TRUE, !.ver = n]
CacheValues ==
  {Value([id \in CourseIds |-> SampleRow(n)]) : n \in 1..MaxRevisions}

EmptyStore == [k \in CacheKeySet |-> NoValue]

\* get(key): null when not connected, else the parsed value or null
CacheServiceGet(store, connected, k) ==
  IF ~connected THEN NoValue ELSE store[k]

\* set(key, value): skipped when not connected
CacheServiceSet(store, connected, k, v) ==
  IF ~connected THEN store ELSE [store EXCEPT ![k] = v]

\* deletePattern(pattern): skipped when not connected, else
\* redis.del(...await redis.keys(pattern))
DeletePattern(store, connected, p) ==
  IF ~connected THEN store
  ELSE [k \in DOMAIN store |-> IF GlobMatch(p, k) THEN NoValue ELSE store[k]]

\* the four methods as their callers see them: what the call returns,
\* whether it throws, and the Redis content it leaves.  cmdOk is FALSE when
\* the Redis command of the call fails.

\* variant: the error of a failed command is passed on to the caller
GetOutcome_Rethrows(store, connected, cmdOk, k) ==
  IF ~connected THEN [value |-> NoValue, threw |-> FALSE]
  ELSE IF cmdOk THEN [value |-> store[k], threw |-> FALSE]
  ELSE [value |-> NoValue, threw |-> TRUE]

\* get(key)
GetOutcome(store, connected, cmdOk, k) ==
  IF ~connected THEN [value |-> NoValue, threw |-> FALSE]
  ELSE IF cmdOk THEN [value |-> CacheServiceGet(store, connected, k),
                      threw |-> FALSE]
  ELSE [value |-> NoValue, threw |-> FALSE]

\* set(key, value)
SetOutcome(store, connected, cmdOk, k, v) ==
  IF ~connected THEN [ret |-> FALSE, threw |-> FALSE, store |-> store]
  ELSE IF cmdOk
       THEN [ret |-> TRUE, threw |-> FALSE,
             store |-> CacheServiceSet(store, connected, k, v)]
       ELSE [ret |-> FALSE, threw |-> FALSE, store |-> store]

\* delete(key): result > 0
DeleteOutcome(store, connected, cmdOk, k) ==
  IF ~connected THEN [ret |-> FALSE, threw |-> FALSE, store |-> store]
  ELSE IF cmdOk
       THEN [ret |-> store[k].present, threw |-> FALSE,
             store |-> [store EXCEPT ![k] = NoValue]]
       ELSE [ret |-> FALSE, threw |-> FALSE, store |-> store]

\* deletePattern(pattern): the number of keys deleted
DeletePatternOutcome(store, connected, cmdOk, p) ==
  IF ~connected THEN [count |-> 0, threw |-> FALSE, store |-> store]
  ELSE IF cmdOk
       THEN [count |-> Cardinality({k \in DOMAIN store :
                                      GlobMatch(p, k) /\ store[k].present}),
             threw |-> FALSE,
             store |-> DeletePattern(store, connected, p)]
       ELSE [count |-> 0, threw |-> FALSE, store |-> store]

NoLaw ==
  [pc |-> "start", key |-> <<>>, val |-> NoValue, pattern |-> <<>>,
   before |-> EmptyStore, after |-> EmptyStore, getKey |-> <<>>,
   got |-> NoValue]

\* the last call of a CacheService method: the method, whether the backend
\* was available to it, what it returned, whether it threw, and whether it
\* changed the Redis content
NoCall ==
  [op |-> "none", up |-> TRUE, threw |-> FALSE, got |-> NoValue,
   retBool |-> FALSE, retCount |-> 0, changed |-> FALSE]

CacheInit ==
  /\ kv = EmptyStore
  /\ law = NoLaw
  /\ apiCall = NoCall

\* cacheService.set(k, v) returns
SetCall(k, v) ==
  /\ law.pc \in {"start", "set", "got"}
  /\ kv' = CacheServiceSet(kv, isConnected, k, v)
  /\ law' = [NoLaw EXCEPT !.pc = "set", !.key = k, !.val = v]
  /\ UNCHANGED <<rlVars, run, crawlVars, hd, apiCall, courseVars, agent>>

\* cacheService.deletePattern(p) returns
DeletePatternCall(p) ==
  /\ law.pc = "set"
  /\ kv' = DeletePattern(kv, isConnected, p)
  /\ law' = [law EXCEPT !.pc = "deleted", !.pattern = p, !.before = kv,
                        !.after = kv']
  /\ UNCHANGED <<rlVars, run, crawlVars, hd, apiCall, courseVars, agent>>

\* cacheService.get(k) returns
GetCall(k) ==
  /\ law.pc = "deleted"
  /\ law' = [law EXCEPT !.pc = "got", !.getKey = k,
                        !.got = CacheServiceGet(kv, isConnected, k)]
  /\ UNCHANGED <<rlVars, run, crawlVars, hd, kv, apiCall, courseVars,
                 agent>>

\* the values a caller stores in the calls below
ApiValues == {Value([id \in CourseIds |-> SampleRow(1)])}

\* await cacheService.get(k), of any caller
ApiGet(k, cmdOk) ==
  /\ LET out == GetOutcome(kv, isConnected, cmdOk, k)
     IN apiCall' = [NoCall EXCEPT !.op = "get", !.up = isConnected /\ cmdOk,
                                  !.threw = out.threw, !.got = out.value]
  /\ UNCHANGED <<rlVars, run, crawlVars, hd, kv, law, courseVars, agent>>

\* await cacheService.set(k, v), of any caller
ApiSet(k, v, cmdOk) ==
  /\ LET out == SetOutcome(kv, isConnected, cmdOk, k, v)
     IN /\ kv' = out.store
        /\ apiCall' = [NoCall EXCEPT !.op = "set",
                                     !.up = isConnected /\ cmdOk,
                                     !.threw = out.threw,
                                     !.retBool = out.ret,
                                     !.changed = (out.store # kv)]
  /\ UNCHANGED <<rlVars, run, crawlVars, hd, law, courseVars, agent>>

\* await cacheService.delete(k), of any caller
ApiDelete(k, cmdOk) ==
  /\ LET out == DeleteOutcome(kv, isConnected, cmdOk, k)
     IN /\ kv' = out.store
        /\ apiCall' = [NoCall EXCEPT !.op = "delete",
                                     !.up = isConnected /\ cmdOk,
                                     !.threw = out.threw,
                                     !.retBool = out.ret,
                                     !.changed = (out.store # kv)]
  /\ UNCHANGED <<rlVars, run, crawlVars, hd, law, courseVars, agent>>

\* await cacheService.deletePattern(p), of any caller
ApiDeletePattern(p, cmdOk) ==
  /\ LET out == DeletePatternOutcome(kv, isConnected, cmdOk, p)
     IN /\ kv' = out.store
        /\ apiCall' = [NoCall EXCEPT !.op = "deletePattern",
                                     !.up = isConnected /\ cmdOk,
                                     !.threw = out.threw,
                                     !.retCount = out.count,
                                     !.changed = (out.store # kv)]
  /\ UNCHANGED <<rlVars, run, crawlVars, hd, law, courseVars, agent>>

NextCache ==
  \/ \E k \in CacheKeySet, v \in CacheValues : SetCall(k, v)
  \/ \E p \in PatternSet : DeletePatternCall(p)
  \/ \E k \in CacheKeySet : GetCall(k)
  \/ CacheConnectionChange

\* ----------------------------------------------------------- CourseService

\* for (const pattern of patterns) await cacheService.deletePattern(pattern)
RECURSIVE InvalidatePatterns(_, _, _)
InvalidatePatterns(store, connected, patterns) ==
  IF patterns = <<>> THEN store
  ELSE InvalidatePatterns(DeletePattern(store, connected, Head(patterns)),
                          connected, Tail(patterns))

\* CacheInvalidator.invalidateCourse(courseId, userId)
InvalidateCourse(store, connected, id, u) ==
  InvalidatePatterns(store, connected, InvalidateCoursePatterns(id, u))

\* modules.reduce((total, module) => total + module.sections.reduce(
\*   (sectionTotal, section) => sectionTotal + section.lessons.length, 0), 0)
RECURSIVE ReduceSections(_, _)
ReduceSections(sectionTotal, sections) ==
  IF sections = <<>> THEN sectionTotal
  ELSE ReduceSections(sectionTotal + Head(sections), Tail(sections))

RECURSIVE ReduceModules(_, _)
ReduceModules(total, modules) ==
  IF modules = <<>> THEN total
  ELSE ReduceModules(total + ReduceSections(0, Head(modules)), Tail(modules))

\* the module lists given to updateCourse, and to createCourse when it is
\* not given a generated course: every module has one section with one
\* lesson
EditShapes ==
  {mods \in Shapes :
     \A m \in DOMAIN mods : Len(mods[m]) = 1 /\ mods[m][1] = 1}

\* the `updates` argument of updateCourse: with or without `modules`
UpdateInputs ==
  {[hasModules |-> FALSE, modules |-> <<>>]}
    \cup {[hasModules |-> TRUE, modules |-> mods] : mods \in EditShapes}

\* variant: the counters are not recomputed with the modules
UpdateData_StatsKept(row, updates) ==
  IF updates.hasModules
  THEN [row EXCEPT !.modules = updates.modules, !.ver = @ + 1]
  ELSE [row EXCEPT !.ver = @ + 1]

\* updateData of updateCourse, applied to the row by prisma.course.update
UpdateData(row, updates) ==
  IF updates.hasModules
  THEN [row EXCEPT !.modules = updates.modules,
                   !.totalModules = Len(updates.modules),
                   !.totalLessons = ReduceModules(0, updates.modules),
                   !.ver = @ + 1]
  ELSE [row EXCEPT !.ver = @ + 1]

\* up and hit describe the cache read of the last call: whether the
\* backend was available to it and whether the call returned its value
NoReader ==
  [pc |-> "idle", kind |-> "none", id |-> "",
   rows |-> [id \in CourseIds |-> NoCourse], up |-> TRUE, hit |-> FALSE]

NoMutation == [op |-> "none", id |-> ""]

CourseInit ==
  /\ db = [id \in CourseIds |-> NoCourse]
  /\ reader = NoReader
  /\ lastMutation = NoMutation

\* an id the database has not issued yet
FreshIds == {id \in CourseIds : db[id].ver = 0}

\* createCourse(userId, courseData, scripts, audioFiles, summary)
CreateCourse(modules) ==
  /\ FreshIds # {}
  /\ LET id == CHOOSE i \in FreshIds : TRUE
     IN /\ db' = [db EXCEPT ![id] =
                    [exists |-> TRUE, modules |-> modules,
                     totalModules |-> Len(modules),
                     totalLessons |-> ReduceModules(0, modules),
                     ver |-> 1]]
        /\ kv' = InvalidateCourse(kv, isConnected, id, UserId)
        /\ lastMutation' = [op |-> "create", id |-> id]
  /\ UNCHANGED <<rlVars, run, crawlVars, hd, law, apiCall, reader, agent>>

\* createCourse given the course of a finished generation run
SaveGenerated ==
  /\ run.pc = "done"
  /\ CreateCourse(run.course)

\* updateCourse(courseId, userId, updates); a course that does not exist
\* is answered with NOT_FOUND
UpdateCourse(id, updates) ==
  /\ db[id].exists
  /\ db[id].ver < MaxRevisions
  /\ db' = [db EXCEPT ![id] = UpdateData(@, updates)]
  /\ kv' = InvalidateCourse(kv, isConnected, id, UserId)
  /\ lastMutation' = [op |-> "update", id |-> id]
  /\ UNCHANGED <<rlVars, run, crawlVars, hd, law, apiCall, reader, agent>>

\* deleteCourse(courseId, userId)
DeleteCourse(id) ==
  /\ db[id].exists
  /\ db' = [db EXCEPT ![id] = [NoCourse EXCEPT !.ver = db[id].ver]]
  /\ kv' = InvalidateCourse(kv, isConnected, id, UserId)
  /\ lastMutation' = [op |-> "delete", id |-> id]
  /\ UNCHANGED <<rlVars, run, crawlVars, hd, law, apiCall, reader, agent>>

\* getCourseById(courseId): the cached course, or the row read from the
\* database, which is cached after the next await
GetCourseByIdStart(id, cmdOk) ==
  /\ reader.pc = "idle"
  /\ LET cached == GetOutcome(kv, isConnected, cmdOk, CourseKey(id)).value
     IN reader' = IF cached.present
                  THEN [NoReader EXCEPT !.up = isConnected /\ cmdOk,
                                        !.hit = TRUE]
                  ELSE [pc |-> "fetched", kind |-> "course", id |-> id,
                        rows |-> [i \in CourseIds |->
                                    IF i = id THEN db[i] ELSE NoCourse],
                        up |-> isConnected /\ cmdOk, hit |-> FALSE]
  /\ UNCHANGED <<rlVars, run, crawlVars, hd, cacheVars, db, lastMutation,
                 agent>>

\* getCoursesByUser(userId): the cached list, or the rows read from the
\* database
GetCoursesByUserStart(cmdOk) ==
  /\ reader.pc = "idle"
  /\ LET cached == GetOutcome(kv, isConnected, cmdOk, ListKey(UserId)).value
     IN reader' = IF cached.present
                  THEN [NoReader EXCEPT !.up = isConnected /\ cmdOk,
                                        !.hit = TRUE]
                  ELSE [pc |-> "fetched", kind |-> "list", id |-> "",
                        rows |-> db, up |-> isConnected /\ cmdOk,
                        hit |-> FALSE]
  /\ UNCHANGED <<rlVars, run, crawlVars, hd, cacheVars, db, lastMutation,
                 agent>>

\* if (course) await cacheService.set(cacheKey, course, ...) of
\* getCourseById; await cacheService.set(cacheKey, result, ...) of
\* getCoursesByUser; the rows read are returned
ReaderCacheSet(cmdOk) ==
  /\ reader.pc = "fetched"
  /\ kv' = IF reader.kind = "list"
           THEN SetOutcome(kv, isConnected, cmdOk, ListKey(UserId),
                           Value(reader.rows)).store
           ELSE IF reader.rows[reader.id].exists
                THEN SetOutcome(kv, isConnected, cmdOk, CourseKey(reader.id),
                                Value(reader.rows)).store
                ELSE kv
  /\ reader' = [NoReader EXCEPT !.up = reader.up]
  /\ UNCHANGED <<rlVars, run, crawlVars, hd, law, apiCall, db, lastMutation,
                 agent>>

\* createSimpleCourse(data): a course without modules
CreateSimpleCourse == CreateCourse(<<>>)

NextCourse ==
  \/ \E mods \in EditShapes : CreateCourse(mods)
  \/ \E id \in CourseIds, updates \in UpdateInputs : UpdateCourse(id, updates)
  \/ \E id \in CourseIds : DeleteCourse(id)
  \/ \E id \in CourseIds, cmdOk \in BOOLEAN : GetCourseByIdStart(id, cmdOk)
  \/ \E cmdOk \in BOOLEAN : GetCoursesByUserStart(cmdOk)
  \/ \E cmdOk \in BOOLEAN : ReaderCacheSet(cmdOk)
  \/ CacheConnectionChange

\* the CacheService calls of a client next to getCourseById calls
NextCacheUse ==
  \/ \E k \in CacheKeySet, cmdOk \in BOOLEAN : ApiGet(k, cmdOk)
  \/ \E k \in CacheKeySet, v \in ApiValues, cmdOk \in BOOLEAN :
       ApiSet(k, v, cmdOk)
  \/ \E k \in CacheKeySet, cmdOk \in BOOLEAN : ApiDelete(k, cmdOk)
  \/ \E p \in PatternSet, cmdOk \in BOOLEAN : ApiDeletePattern(p, cmdOk)
  \/ CacheConnectionChange
  \/ CreateSimpleCourse
  \/ \E id \in CourseIds, cmdOk \in BOOLEAN : GetCourseByIdStart(id, cmdOk)
  \/ \E cmdOk \in BOOLEAN : ReaderCacheSet(cmdOk)

\* generation runs whose course is stored and then edited
NextStats ==
  \/ NextPipe
  \/ SaveGenerated
  \/ \E id \in CourseIds, updates \in UpdateInputs : UpdateCourse(id, updates)

\* ------------------------------------------------------------ ContextAgent

\* the sources of a request: URLs (0 is a string that `new URL` rejects)
\* and raw text
SourceUrls == 0..NumSourceUrls

AgentSources ==
  {[type |-> "url", content |-> u] : u \in SourceUrls}
    \cup {[type |-> "text", content |-> 0]}

AgentInit == agent = [processedUrls |-> {}, runs |-> <<>>]

\* extractFromUrl(url): INVALID_URL, 'URL already processed', or the
\* extraction result after processedUrls.add(url)
ExtractFromUrl(processed, url) ==
  IF url = 0
  THEN [result |-> "invalid_url", processed |-> processed]
  ELSE IF url \in processed
       THEN [result |-> "already_processed", processed |-> processed]
       ELSE [result |-> "ok", processed |-> processed \cup {url}]

\* the switch of extractContent(source), entered once its
\* rateLimiter.acquire() has admitted the call
ExtractFromSource(processed, source) ==
  IF source.type = "url"
  THEN ExtractFromUrl(processed, source.content)
  ELSE [result |-> "ok", processed |-> processed]

\* a generation request arrives: its handler is about to extract its
\* first source
StartRun(sources) ==
  /\ Len(agent.runs) < NumRuns
  /\ agent' = [agent EXCEPT !.runs =
                 Append(@, [sources |-> sources, results |-> <<>>,
                            status |-> "extracting"])]
  /\ UNCHANGED <<rlVars, run, crawlVars, hd, cacheVars, courseVars>>

\* contextAgent.extractContent(source) of run r returns or throws; a throw
\* ends the run in its handler's catch block
ExtractContent(r) ==
  /\ agent.runs[r].status = "extracting"
  /\ LET this == agent.runs[r]
         source == this.sources[Len(this.results) + 1]
         out == ExtractFromSource(agent.processedUrls, source)
         results == Append(this.results, out.result)
     IN agent' =
          [processedUrls |-> out.processed,
           runs |-> [agent.runs EXCEPT ![r] =
                       [this EXCEPT
                          !.results = results,
                          !.status =
                            IF out.result # "ok" THEN "failed"
                            ELSE IF Len(results) = Len(this.sources)
                                 THEN "extracted"
                                 ELSE "extracting"]]]
  /\ UNCHANGED <<rlVars, run, crawlVars, hd, cacheVars, courseVars>>

NextAgent ==
  \/ \E sources \in SeqsUpTo(AgentSources, MaxSources) \ {<<>>} :
       StartRun(sources)
  \/ \E r \in DOMAIN agent.runs : ExtractContent(r)

\* --------------------------------------------------------- specifications

Init ==
  /\ RLInit /\ PipeInit /\ CrawlInit /\ BatchInit /\ HeadInit
  /\ CacheInit /\ CourseInit /\ AgentInit

SpecPipe == Init /\ [][NextPipe]_vars

SpecCache == Init /\ [][NextCache]_vars

SpecCourse == Init /\ [][NextCourse]_vars

SpecCacheUse == Init /\ [][NextCacheUse]_vars

SpecAgent == Init /\ [][NextAgent]_vars

SpecStats == Init /\ [][NextStats]_vars

NextStream == NextPipe \/ Disconnect

SpecStream == Init /\ [][NextStream]_vars

SpecCrawl == Init /\ [][NextCrawl]_vars

SpecBatch == Init /\ [][NextBatch]_vars

SpecOverlap == Init /\ [][NextOverlap]_vars

\* extractHeadings applied to every text and granularity within the bounds
InitHeadings ==
  /\ RLInit /\ PipeInit /\ CrawlInit /\ BatchInit /\ HeadInputs
  /\ CacheInit /\ CourseInit /\ AgentInit

SpecHeadings == InitHeadings /\ [][NextHeadings]_vars

\* extractHeadings applied to every document and granularity within the
\* bounds
InitContent ==
  /\ RLInit /\ PipeInit /\ CrawlInit /\ BatchInit /\ DocInputs
  /\ CacheInit /\ CourseInit /\ AgentInit

SpecContent == InitContent /\ [][NextContent]_vars

\* every pending await of the crawl is eventually resumed and the clock
\* keeps running; nothing obliges anybody to call getStats
SpecBatchFair ==
  /\ SpecBatch
  /\ WF_vars(BatchContinue(MainBatch))
  /\ WF_vars(\E ok \in BOOLEAN : CacheGetReturn(MainBatch, ok))
  /\ WF_vars(HttpIssue(MainBatch))
  /\ WF_vars(\E o \in HttpOutcomes, v \in Versions :
               HttpReturn(MainBatch, o, v))
  /\ WF_vars(\E ok \in BOOLEAN : CacheSetReturn(MainBatch, ok))
  /\ WF_vars(WindowPasses)

NextRL ==
  \/ \E c \in Callers : Acquire(c)
  \/ GetAvailableTokens
  \/ Reset
  \/ Tick

SpecRL == Init /\ [][NextRL]_vars

\* a single sequential caller: it awaits each acquire before issuing the
\* next one, and nothing else touches the limiter
SeqCaller == CHOOSE c \in Callers : \A d \in Callers : c <= d

NextSeq ==
  \/ Acquire(SeqCaller)
  \/ Tick

SpecSeq == Init /\ [][NextSeq]_vars

\* the caller keeps calling and the clock keeps running
SpecSeqFair == SpecSeq /\ WF_vars(Acquire(SeqCaller)) /\ WF_vars(Tick)

\* ------------------------------------------------- RateLimiter properties

\* number of acquire calls admitted by the operation observed in o
Admitted(o) == Len(o.resumed) + Cardinality(o.immediate)

\* the state is the one right after an operation that ran refill()
AfterRefillOp == lastOp.op \in {"acquire", "get"}

\* C3: every acquire of a single sequential caller eventually resolves
\* (a suspended caller is eventually resumed once the bucket has refilled).
C3_EveryAcquireResolves ==
  (callerState[SeqCaller] = "waiting") ~> (callerState[SeqCaller] = "idle")

\* the time at which the last token was consumed before the observed operation
LastConsumedBefore == admitTimes[Len(admitTimes) - Admitted(lastOp)]

\* an acquire was admitted by an operation that found the bucket empty
AdmittedFromEmpty ==
  /\ AfterRefillOp
  /\ lastOp.preTokens = 0
  /\ Admitted(lastOp) > 0

\* C4 (as claimed): after all tokens were consumed, the next acquire resolves
\* no earlier than RefillInterval ms after those tokens were consumed.
C4_WaitsWindowAfterConsumption ==
  AdmittedFromEmpty => now - LastConsumedBefore >= RefillInterval

\* C4 (amended): after all tokens were consumed, the next acquire resolves
\* no earlier than RefillInterval ms after the limiter's last refill time.
C4_WaitsWindowAfterLastRefill ==
  AdmittedFromEmpty => now - lastOp.preLast >= RefillInterval

C4_Witness ==
  /\ AdmittedFromEmpty
  /\ now - lastOp.preLast >= RefillInterval
  /\ now - LastConsumedBefore < RefillInterval

\* number of admitted acquires with a time in lo..hi
AdmittedWithin(lo, hi) ==
  Cardinality({i \in DOMAIN admitTimes : admitTimes[i] \in lo..hi})

\* C5 (as claimed): at most MaxTokens acquires are admitted within any time
\* interval of length RefillInterval.
C5_AtMostMaxTokensPerInterval ==
  \A a \in 0..MaxTime : AdmittedWithin(a, a + RefillInterval - 1) <= MaxTokens

\* C5 (amended): between resets, at most 2 * MaxTokens acquires are admitted
\* within any time interval of length RefillInterval.
C5_AtMostTwiceMaxTokensPerInterval ==
  \A a \in 0..MaxTime : AdmittedWithin(a, a + RefillInterval) <= 2 * MaxTokens

C5_Witness ==
  \E a \in 0..MaxTime :
    /\ AdmittedWithin(a, a + RefillInterval - 1) = 2 * MaxTokens
    /\ AfterRefillOp

\* C6: with no waiting callers, a getAvailableTokens call made k*W ms after
\* the last acquire reports min(N, t + k*N), t being the tokens left then.
C6_IdleRefill ==
  (/\ lastOp.op = "get"
   /\ idleWaiting = 0
   /\ (now - idleSince) % RefillInterval = 0)
  => lastOp.reported =
       Min(MaxTokens,
           idleTokens + ((now - idleSince) \div RefillInterval) * MaxTokens)

C6_Witness ==
  /\ lastOp.op = "get"
  /\ idleWaiting = 0
  /\ idleTokens < MaxTokens
  /\ now - idleSince = RefillInterval
  /\ lastOp.reported = MaxTokens

\* C7: waiting callers are resumed in the order in which they were queued,
\* and an arriving acquire takes a token only when nobody is left waiting.
C7_Fifo ==
  AfterRefillOp =>
    /\ lastOp.resumed = SubSeq(lastOp.preQueue, 1, Len(lastOp.resumed))
    /\ lastOp.immediate # {} =>
         /\ Len(lastOp.resumed) = Len(lastOp.preQueue)
         /\ queue = <<>>

C7_Witness ==
  /\ AfterRefillOp
  /\ Len(lastOp.preQueue) >= 2
  /\ Len(lastOp.resumed) >= 1
  /\ Len(lastOp.resumed) < Len(lastOp.preQueue)

\* C8: 0 <= tokens <= maxTokens, and every admitted acquire (immediate or
\* resumed) is matched by exactly one decrement of tokens.
C8_TokenAccounting ==
  /\ tokens \in 0..MaxTokens
  /\ lastOp.decs = Admitted(lastOp)

C8_Witness ==
  /\ lastOp.op = "acquire"
  /\ Len(lastOp.resumed) >= 1
  /\ lastOp.immediate # {}
  /\ tokens = 0

\* C32: a refill that adds tokens advances lastRefill by the whole windows
\* that have elapsed, not to the current time.
C32_LastRefillAdvancesByWindows ==
  (AfterRefillOp /\ TokensToAdd(now, lastOp.preLast) > 0) =>
    lastRefill =
      lastOp.preLast
        + ((now - lastOp.preLast) \div RefillInterval) * RefillInterval

\* C35: while tokens > 0 the wait queue is empty.
C35_NoWaiterWhileTokens == tokens > 0 => queue = <<>>

C35_Witness ==
  /\ AfterRefillOp
  /\ Len(lastOp.resumed) >= 1
  /\ tokens > 0
  /\ queue = <<>>

\* ---------------------------------------------------- pipeline properties

LastCall == run.calls[Len(run.calls)]

AllLessons == Range(LessonKeys(run.modules))

PhaseRank(ph) ==
  CASE ph = "initializing" -> 1
    [] ph = "extracting" -> 2
    [] ph = "generating" -> 3
    [] ph = "processing" -> 4
    [] ph = "completed" -> 5
    [] OTHER -> 0

OpRank(op) ==
  CASE op = "extract" -> 1
    [] op = "structure" -> 2
    [] op = "script" -> 3
    [] op = "audio" -> 3
    [] op = "summary" -> 4
    [] OTHER -> 0

ProgressIdx == {i \in DOMAIN run.events : run.events[i].type = "progress"}

\* C2: the phases of the progress events appear in the order initializing,
\* extracting, generating, processing, completed, and the collaborator calls
\* are strictly sequential: one call at a time, extractions before the
\* structure call, that before the lesson calls, those before the summary.
C2_PhasesSequential ==
  /\ \A i, j \in ProgressIdx :
       i < j => /\ PhaseRank(run.events[i].phase) >= 1
                /\ PhaseRank(run.events[i].phase) <= PhaseRank(run.events[j].phase)
  /\ \A i \in DOMAIN run.calls :
       /\ (run.calls[i].ev = "start" /\ i < Len(run.calls)) =>
            /\ run.calls[i + 1].ev # "start"
            /\ run.calls[i + 1].op = run.calls[i].op
            /\ run.calls[i + 1].idx = run.calls[i].idx
       /\ \A j \in DOMAIN run.calls :
            i < j => OpRank(run.calls[i].op) <= OpRank(run.calls[j].op)

C2_Witness ==
  /\ run.pc = "done"
  /\ run.req.endpoint = "stream"
  /\ {run.events[i].phase : i \in ProgressIdx} =
       {"initializing", "extracting", "generating", "processing", "completed"}
  /\ Cardinality({i \in DOMAIN run.calls : run.calls[i].op = "extract"}) >= 4
  /\ Cardinality({i \in DOMAIN run.calls : run.calls[i].op = "script"}) >= 4
  /\ \E i \in DOMAIN run.calls : run.calls[i].op = "audio"

\* the progress events of a phase, in the order sent
PhaseEvents(ph) ==
  SelectSeq(run.events, LAMBDA e : e.type = "progress" /\ e.phase = ph)

Phases == {"initializing", "extracting", "generating", "processing",
           "completed"}

StrictlyIncreasingCurrent ==
  \A ph \in Phases :
    \A i, j \in DOMAIN PhaseEvents(ph) :
      i < j => PhaseEvents(ph)[i].current < PhaseEvents(ph)[j].current

\* the k-th processing event has current = k and total = number of lessons
ProcessingCountsLessons ==
  \A k \in DOMAIN PhaseEvents("processing") :
    /\ PhaseEvents("processing")[k].current = k
    /\ PhaseEvents("processing")[k].total = Len(LessonKeys(run.modules))

TerminalIdx ==
  {i \in DOMAIN run.events : run.events[i].type \in {"success", "error"}}

\* C34: a streaming run emits no terminal message while it is running and
\* exactly one once it has ended, the success payload or an error message;
\* it is the last event; the success payload comes directly after a
\* progress event with phase completed, and an error message has no
\* completed progress event before it.
C34_OneTerminalMessage ==
  run.req.endpoint = "stream" =>
    /\ Cardinality(TerminalIdx) = IF run.pc \in {"done", "failed"} THEN 1 ELSE 0
    /\ \A i \in TerminalIdx :
         /\ i = Len(run.events)
         /\ run.events[i].type = "success" =>
              /\ run.pc = "done"
              /\ i > 1
              /\ run.events[i - 1].type = "progress"
              /\ run.events[i - 1].phase = "completed"
         /\ run.events[i].type = "error" =>
              /\ run.pc = "failed"
              /\ \A j \in 1..(i - 1) : run.events[j].phase # "completed"

C34_Witness ==
  /\ run.req.endpoint = "stream"
  /\ run.pc = "done"
  /\ run.scripts # {}
  /\ run.events[Len(run.events)].type = "success"

ProgressEvents == SelectSeq(run.events, LAMBDA e : e.type = "progress")

\* C21: over the whole stream of one run the `current` values of the
\* progress events are non-decreasing.
C21_CurrentNonDecreasing ==
  \A i, j \in DOMAIN ProgressEvents :
    i < j => ProgressEvents[i].current <= ProgressEvents[j].current

\* C22: a failed extraction, a failed structure call or a response without
\* a JSON object holding a `modules` array ends the run with the error
\* outcome, and no call is issued afterwards.
C22_EarlyFailureAborts ==
  /\ \A i \in DOMAIN run.calls :
       (run.calls[i].ev = "fail" /\ run.calls[i].op \in {"extract", "structure"})
         => /\ i = Len(run.calls)
            /\ run.pc = "failed"
            /\ run.outcome = "error"
            /\ run.req.endpoint = "stream" =>
                 /\ run.events[Len(run.events)].type = "error"
                 /\ \A j \in DOMAIN run.events : run.events[j].type # "success"
  /\ run.responseForm \in MalformedForms \cup {"throw"} =>
       /\ LastCall.op = "structure"
       /\ LastCall.ev = "fail"
       /\ \A i \in DOMAIN run.calls :
            run.calls[i].op \notin {"script", "audio", "summary"}

C22_Witness ==
  /\ run.responseForm \in MalformedForms
  /\ run.pc = "failed"
  /\ Cardinality({i \in DOMAIN run.calls :
                    run.calls[i].op = "extract" /\ run.calls[i].ev = "ok"}) = 2

\* C23: the lesson scripts are requested in module, then section, then
\* lesson index order, each lesson once, all of them by the end of the
\* processing phase; the assembled course has the modules as the structure
\* call returned them.
ScriptRequests ==
  SelectSeq(run.calls, LAMBDA c : c.op = "script" /\ c.ev = "start")

RequestedKey(i) == LessonKeys(run.modules)[ScriptRequests[i].idx]

KeyLess(a, b) ==
  \/ a[1] < b[1]
  \/ a[1] = b[1] /\ a[2] < b[2]
  \/ a[1] = b[1] /\ a[2] = b[2] /\ a[3] < b[3]

AllKeys(mods) ==
  UNION {UNION {{<<m - 1, sec - 1, l - 1>> : l \in 1..mods[m][sec]} :
                  sec \in DOMAIN mods[m]} : m \in DOMAIN mods}

C23_LessonsInIndexOrder ==
  LET requested == {RequestedKey(i) : i \in DOMAIN ScriptRequests}
  IN /\ \A i, j \in DOMAIN ScriptRequests :
          i < j => KeyLess(RequestedKey(i), RequestedKey(j))
     /\ requested \subseteq AllKeys(run.modules)
     /\ \A k \in AllKeys(run.modules) :
          (\E q \in requested : KeyLess(k, q)) => k \in requested
     /\ run.pc \in {"summarizing", "done"} =>
          /\ requested = AllKeys(run.modules)
          /\ run.course = run.modules

C23_Witness ==
  /\ run.pc = "done"
  /\ Len(run.course) = 2
  /\ Len(ScriptRequests) = 3
  /\ \E m \in DOMAIN run.modules : \E sec \in DOMAIN run.modules[m] :
       run.modules[m][sec] = 2

\* C24: a failed audio call is caught: the script of that lesson stays in
\* the scripts map, the next lesson's script (or the summary) is requested
\* next, and the run does not end in the error outcome because of it.
C24_AudioFailureCaught ==
  /\ \A i \in DOMAIN run.calls :
       (run.calls[i].op = "audio" /\ run.calls[i].ev = "fail") =>
         /\ LessonKeys(run.modules)[run.calls[i].idx] \in run.scripts
         /\ LessonKeys(run.modules)[run.calls[i].idx] \notin run.audioFiles
         /\ i < Len(run.calls)
         /\ run.calls[i + 1].ev = "start"
         /\ IF run.calls[i].idx < Len(LessonKeys(run.modules))
            THEN /\ run.calls[i + 1].op = "script"
                 /\ run.calls[i + 1].idx = run.calls[i].idx + 1
            ELSE run.calls[i + 1].op = "summary"
  /\ (run.pc = "failed" /\ run.calls # <<>>) =>
       /\ LastCall.ev = "fail"
       /\ LastCall.op # "audio"

C24_Witness ==
  /\ run.pc = "done"
  /\ run.req.includeAudio
  /\ run.scripts = AllLessons
  /\ Cardinality(run.scripts) = 2
  /\ run.audioFiles = {}

\* C25: a request without sources or without a course title ends in the
\* error outcome at once: the error is its only output, no progress event
\* is sent and no collaborator call (the only callers of the rate limiters)
\* is issued.
C25_InvalidRequestRejected ==
  (run.req.endpoint # "none" /\ (run.req.sources = <<>> \/ ~run.req.hasTitle))
    => /\ run.pc = "failed"
       /\ run.outcome = "error"
       /\ run.calls = <<>>
       /\ run.progress.phase = "none"
       /\ \A i \in DOMAIN run.events : run.events[i].type = "error"
       /\ Len(run.events) = IF run.req.endpoint = "stream" THEN 1 ELSE 0

C25_Witness ==
  /\ run.pc = "failed"
  /\ run.req.endpoint = "stream"
  /\ Len(run.req.sources) = 2
  /\ ~run.req.hasTitle
  /\ Len(run.events) = 1

\* C26: after the consumer of the stream has disconnected, no external call
\* is started.
C26_NoCallAfterDisconnect ==
  ~run.connected =>
    \A i \in DOMAIN run.calls :
      i > run.callsAtClose => run.calls[i].ev # "start"

\* the phase in which a call is made
WorkPhase(op) ==
  CASE op = "extract" -> "extracting"
    [] op = "structure" -> "generating"
    [] OTHER -> "processing"

StreamCallStarts ==
  {i \in DOMAIN run.calls :
     run.req.endpoint = "stream" /\ run.calls[i].ev = "start"}

\* C31 as stated: also the completed event precedes the summary call.
C31_CompletedBeforeSummary ==
  \A i \in StreamCallStarts :
    run.calls[i].op = "summary" =>
      \E j \in 1..run.calls[i].sent : run.events[j].phase = "completed"

\* C31: the last event sent before a call is issued is the progress event
\* of the call's phase, carrying the index of the source or lesson the call
\* is for; the summary is requested after the event of the last lesson (of
\* the generating phase when there is no lesson) with no event of its own,
\* and the completed event is sent only after the summary has returned.
C31_EventBeforeWork ==
  /\ \A i \in StreamCallStarts :
       LET c == run.calls[i]
       IN /\ c.sent >= 1
          /\ run.events[c.sent].type = "progress"
          /\ c.op # "summary" =>
               run.events[c.sent].phase = WorkPhase(c.op)
          /\ c.op \in {"extract", "script", "audio"} =>
               run.events[c.sent].current = c.idx
          /\ c.op = "summary" =>
               IF LessonKeys(run.modules) = <<>>
               THEN run.events[c.sent].phase = "generating"
               ELSE /\ run.events[c.sent].phase = "processing"
                    /\ run.events[c.sent].current = Len(LessonKeys(run.modules))
          /\ \A j \in 1..c.sent : run.events[j].phase # "completed"
  /\ \A j \in DOMAIN run.events :
       run.events[j].phase = "completed" =>
         \E i \in DOMAIN run.calls :
           /\ run.calls[i].op = "summary"
           /\ run.calls[i].ev = "ok"
           /\ run.calls[i].sent < j

C31_Witness ==
  /\ run.pc = "done"
  /\ run.req.endpoint = "stream"
  /\ run.req.includeAudio
  /\ Len(run.req.sources) = 2
  /\ Cardinality(run.scripts) = 2
  /\ run.events[Len(run.events) - 1].phase = "completed"

\* ----------------------------------------------------- crawler properties

\* a crawlUrl call returned or threw in the last step
SomeReturn == lastReturn # NoReturn

\* C9 (as claimed): a crawlUrl(u) that begins after u was crawled
\* successfully in the same session fails with the already-crawled error.
C9_SecondCrawlFails ==
  (SomeReturn /\ lastReturn.afterSuccess)
    => lastReturn.error = "already_crawled"

\* C9 (amended): such a call returns the cached result when the cache read
\* hits and fails with the already-crawled error when it misses; it never
\* fetches the URL again.
C9_SecondCrawlCachedOrFails ==
  (SomeReturn /\ lastReturn.afterSuccess) =>
    \/ /\ lastReturn.cached = NoEntry
       /\ lastReturn.error = "already_crawled"
       /\ lastReturn.result = NoEntry
    \/ /\ lastReturn.cached # NoEntry
       /\ lastReturn.error = "none"
       /\ lastReturn.result = lastReturn.cached

C9_Witness ==
  /\ SomeReturn
  /\ lastReturn.afterSuccess
  /\ lastReturn.error = "already_crawled"
  /\ cache[lastReturn.url] = NoEntry

\* C10: when the cache read yields an entry, crawlUrl returns exactly that
\* entry, issues no GET, takes no rate-limiter token and leaves the
\* visited-set (and the cache) as they were.
C10_CacheHitReturnsCached ==
  [][\A c \in CrawlCalls :
       (lastReturn'.call = c /\ lastReturn'.cached # NoEntry) =>
         /\ lastReturn'.error = "none"
         /\ lastReturn'.result = cache[crawl[c].url]
         /\ lastReturn'.url = crawl[c].url
         /\ httpCount' = httpCount
         /\ tokens' = tokens
         /\ queue' = queue
         /\ crawledUrls' = crawledUrls
         /\ cache' = cache]_vars

C10_Witness ==
  /\ SomeReturn
  /\ lastReturn.cached # NoEntry
  /\ lastReturn.result = lastReturn.cached
  /\ lastReturn.url \notin crawledUrls
  /\ httpCount[lastReturn.url] = 0

\* C11: within one crawl session at most one GET is issued per URL.
C11_AtMostOneGetPerSession ==
  \A u \in Pages : httpCount[u] <= 1

\* C14: a crawlUrl call for a URL that the patterns of its settings reject
\* never returns a result; it fails with the pattern error.
C14_DisallowedNeverReturned ==
  (SomeReturn /\ lastReturn.url \in Pages
     /\ ~IsUrlAllowed(lastReturn.url, lastReturn.settings))
    => (lastReturn.result = NoEntry /\ lastReturn.error = "not_allowed")

\* ------------------------------------------- crawlMultipleUrls properties

\* the crawlMultipleUrls call of SpecBatch
MB == batch[MainBatch]


\* C38: a step in which a crawlUrl call throws changes neither crawledUrls
\* nor the cache; a URL enters crawledUrls only in the step in which its GET
\* has succeeded and its content is extracted, and an entry enters the cache
\* only as the result of such a call.
C38_FailureLeavesNoTrace ==
  [][/\ lastReturn'.error # "none" =>
          (crawledUrls' = crawledUrls /\ cache' = cache)
     /\ \A u \in crawledUrls' \ crawledUrls :
          \E c \in CrawlCalls :
            /\ crawl[c].pc = "http"
            /\ crawl[c].url = u
            /\ crawl'[c].pc \in {"cacheSet", "idle"}
            /\ lastReturn'.error = "none"
     /\ \A u \in Urls :
          (cache'[u] # cache[u] /\ cache'[u] # NoEntry) =>
            \E c \in CrawlCalls :
              /\ crawl[c].pc = "cacheSet"
              /\ crawl[c].url = u
              /\ cache'[u] = crawl[c].result
              /\ lastReturn'.error = "none"]_vars

C38_Witness ==
  /\ lastReturn.error \in {"not_found", "timeout", "network"}
  /\ lastReturn.url \notin crawledUrls
  /\ cache[lastReturn.url] = NoEntry

\* C12: crawlMultipleUrls never fails because of one URL.
C12_BatchNeverThrows == MB.pc # "thrown"

\* C13: every crawlMultipleUrls call that has started eventually returns.
C13_BatchTerminates ==
  (MB.pc \in {"crawling", "delay", "caught"})
    ~> (MB.pc \in {"returned", "thrown"})

\* number of results of call bk whose URL has hostname h
ResultsOn(bk, h) ==
  Cardinality({i \in DOMAIN bk.results : Host(bk.results[i].url) = h})

\* C15: at every point of a crawlMultipleUrls call no hostname has more
\* than maxPagesPerDomain results, and no URL is passed to crawlUrl once
\* its hostname has reached that count.
C15_PerDomainCap ==
  /\ \A h \in Hosts : ResultsOn(MB, h) <= MB.settings.maxPagesPerDomain
  /\ MB.pc = "crawling" =>
       ResultsOn(MB, Host(MB.cur.url)) < MB.settings.maxPagesPerDomain

C15_Witness ==
  /\ MB.pc = "returned"
  /\ MB.settings.maxPagesPerDomain > 1
  /\ Len(urlQueue) > 0
  /\ ResultsOn(MB, Host(urlQueue[1].url)) = MB.settings.maxPagesPerDomain

\* C16: every push of links on the queue follows a successful crawl with
\* maxDepth > 1, adds at most LinkSliceCap URLs, all of the hostname of the
\* page just crawled and all allowed by the patterns; a call with
\* maxDepth <= 1 passes only its seed URLs to crawlUrl.
C16_LinksAppended ==
  \A b \in BatchCalls :
    /\ \A i \in DOMAIN batch[b].appends :
         LET a == batch[b].appends[i]
         IN /\ batch[b].settings.maxDepth > 1
            /\ \E j \in DOMAIN batch[b].results :
                 batch[b].results[j].url = a.from.url
            /\ Len(a.urls) <= LinkSliceCap
            /\ \A k \in DOMAIN a.urls :
                 /\ Host(a.urls[k]) = Host(a.from.url)
                 /\ IsUrlAllowed(a.urls[k], batch[b].settings)
    /\ batch[b].settings.maxDepth <= 1 =>
         \A i \in DOMAIN batch[b].crawled :
           batch[b].crawled[i].url \in Range(batch[b].seeds)

\* C37: every URL a crawlMultipleUrls call passes to crawlUrl is one of the
\* seeds of that call or a link that call itself appended to the queue,
\* also when calls on the one instance overlap.
C37_CallsDoNotInterfere ==
  \A b \in BatchCalls :
    \A i \in DOMAIN batch[b].crawled :
      \/ batch[b].crawled[i].url \in Range(batch[b].seeds)
      \/ \E j \in DOMAIN batch[b].appends :
           batch[b].crawled[i].url \in Range(batch[b].appends[j].urls)

\* C17: no URL is crawled at a depth greater than maxDepth.
C17_DepthBounded ==
  \A i \in DOMAIN MB.crawled : MB.crawled[i].depth <= MB.settings.maxDepth

\* ------------------------------------------------------ heading properties

\* the nearest heading before i with a strictly smaller level (0: none)
NearestSmaller(levels, i) ==
  LET S == {j \in 1..(i - 1) : levels[j] < levels[i]}
  IN IF S = {} THEN 0 ELSE CHOOSE j \in S : \A k \in S : k <= j

\* the parents of heading i in the forest (the headings that hold it in
\* their children array)
ParentsOf(h, i) == {j \in DOMAIN h.children : i \in Range(h.children[j])}

RECURSIVE PreOrder(_, _)
PreOrder(nodes, children) ==
  IF Len(nodes) = 0
  THEN <<>>
  ELSE <<Head(nodes)>> \o PreOrder(children[Head(nodes)], children)
                       \o PreOrder(Tail(nodes), children)

\* C18: buildHeadingHierarchy returns a forest in which each heading's
\* parent is the nearest preceding heading of strictly smaller level (a
\* root when there is none), children are strictly deeper than their
\* parent, and a pre-order traversal reproduces the input order.
C18_HeadingForest ==
  hd.pc = "done" =>
    /\ \A i \in DOMAIN hd.headings :
         LET p == NearestSmaller(hd.headings, i)
         IN /\ ParentsOf(hd, i) = (IF p = 0 THEN {} ELSE {p})
            /\ (p = 0) = (i \in Range(hd.roots))
            /\ \A j \in ParentsOf(hd, i) : hd.headings[j] < hd.headings[i]
    /\ PreOrder(hd.roots, hd.children) =
         [i \in 1..Len(hd.headings) |-> i]

C18_Witness ==
  /\ hd.pc = "done"
  /\ hd.headings = <<1, 2, 2, 1>>
  /\ hd.roots = <<1, 4>>
  /\ hd.children = <<(<<2, 3>>), <<>>, <<>>, <<>>>>

\* the levels of HeadingStructure.level
MaxHeadingLevel == 6

\* C19: every heading produced by text extraction has a level in 1..6.
C19_LevelsOneToSix ==
  hd.pc = "done" =>
    \A i \in DOMAIN hd.headings : hd.headings[i] \in 1..MaxHeadingLevel

\* -------------------------------------------------- cache service properties

\* C27: after set(k, v) and then deletePattern(p) with p matching k, get(k)
\* returns null; deletePattern(p) leaves the keys that p does not match as
\* they were.
C27_DeletePatternLaw ==
  /\ (law.pc = "got" /\ law.getKey = law.key /\ GlobMatch(law.pattern, law.key))
       => law.got = NoValue
  /\ law.pc \in {"deleted", "got"} =>
       \A k \in CacheKeySet :
         ~GlobMatch(law.pattern, k) => law.after[k] = law.before[k]

\* C33: a CacheService call made while the backend is unavailable (not
\* connected, or its command fails) returns null (get), false (set, delete)
\* or 0 (deletePattern), leaves Redis as it was, and no call ever throws; a
\* getCourseById whose cache read found the backend unavailable reads the
\* database, as on a miss.
C33_UnavailableIsAMiss ==
  /\ ~apiCall.threw
  /\ (apiCall.op # "none" /\ ~apiCall.up) =>
       /\ ~apiCall.changed
       /\ apiCall.op = "get" => apiCall.got = NoValue
       /\ apiCall.op \in {"set", "delete"} => ~apiCall.retBool
       /\ apiCall.op = "deletePattern" => apiCall.retCount = 0
  /\ ~reader.up => ~reader.hit

C33_Witness ==
  /\ apiCall.op = "deletePattern"
  /\ isConnected
  /\ ~apiCall.up
  /\ \E k \in CacheKeySet : kv[k].present
  /\ reader.pc = "fetched"
  /\ ~reader.up
  /\ kv[CourseKey(reader.id)].present
  /\ reader.rows[reader.id].exists

\* ------------------------------------------------- course service properties

\* the cached value a read of the database would produce for key k now
CourseRows(id) == [i \in CourseIds |-> IF i = id THEN db[i] ELSE NoCourse]

IsFresh(k) ==
  \/ k = ListKey(UserId) /\ kv[k] = Value(db)
  \/ \E id \in CourseIds :
       k = CourseKey(id) /\ db[id].exists /\ kv[k] = Value(CourseRows(id))

ClaimedPatterns(id) ==
  {<<"course:", id, "*">>, <<"course:", "list:", "*">>,
   <<"enrollment:", "*", ":", id, "*">>}

\* C28: once createCourse, updateCourse or deleteCourse of a course has
\* returned, no key matching course:<id>*, course:list:* or
\* enrollment:*:<id>* holds an entry read before the mutation.
C28_NoStaleEntryAfterMutation ==
  lastMutation.op # "none" =>
    \A k \in CacheKeySet :
      (\E p \in ClaimedPatterns(lastMutation.id) : GlobMatch(p, k))
        => (~kv[k].present \/ IsFresh(k))

\* C36: when no getCourseById call is between its database read and its
\* cache write, the entry under course:<id> is absent or holds the current
\* database row of the course.
C36_CacheAsideConsistent ==
  reader.pc = "idle" =>
    \A id \in CourseIds :
      kv[CourseKey(id)].present =>
        kv[CourseKey(id)].rows[id] = db[id]

\* C29: every stored course has totalLessons equal to the number of lessons
\* of its modules and totalModules equal to the number of its modules; the
\* total of the processing phase of a run is the number of lessons of the
\* generated modules.
C29_TotalsMatchModules ==
  /\ \A id \in CourseIds :
       db[id].exists =>
         /\ db[id].totalLessons = Cardinality(AllKeys(db[id].modules))
         /\ db[id].totalModules = Len(db[id].modules)
  /\ run.progress.phase \in {"processing", "completed"} =>
       run.progress.total = Cardinality(AllKeys(run.modules))
  /\ \A i \in DOMAIN run.events :
       run.events[i].phase \in {"processing", "completed"} =>
         run.events[i].total = Cardinality(AllKeys(run.modules))

C29_Witness ==
  /\ run.pc = "done"
  /\ \E i \in DOMAIN run.events :
       run.events[i].phase = "processing" /\ run.events[i].total = 3
  /\ \E id \in CourseIds :
       /\ db[id].exists
       /\ db[id].ver = 2
       /\ db[id].totalLessons = 2
       /\ db[id].totalModules = 2
       /\ db[id].modules # run.course

\* ------------------------------------------------- context agent properties

\* C30: two runs of the process given the same sources extract them with
\* the same outcome: no run is refused a source because of an earlier run.
C30_RunsIndependent ==
  \A r1, r2 \in DOMAIN agent.runs :
    (/\ r1 < r2
     /\ agent.runs[r1].sources = agent.runs[r2].sources
     /\ agent.runs[r1].status # "extracting"
     /\ agent.runs[r2].status # "extracting")
      => /\ agent.runs[r2].results = agent.runs[r1].results
         /\ agent.runs[r2].status = agent.runs[r1].status


\* ------------------------------------------------ heading content properties

\* the lines after line i up to, and not including, the next heading line
\* of level `level` or shallower
RECURSIVE LinesUntilNextHeading(_, _, _)
LinesUntilNextHeading(lines, i, level) ==
  IF i > Len(lines) THEN <<>>
  ELSE IF TrimmedMarkers(lines[i]) > 0 /\ TrimmedMarkers(lines[i]) <= level
       THEN <<>>
       ELSE <<lines[i]>> \o LinesUntilNextHeading(lines, i + 1, level)

\* C39: the content of every heading returned is the text of the lines that
\* follow the heading's own line up to, and not including, the next heading
\* line of the same or a shallower level.
C39_ContentFollowsOwnLine ==
  (hd.pc = "done" /\ hd.doc # <<>>) =>
    \A h \in DOMAIN hd.contents :
      hd.contents[h].content =
        LinesUntilNextHeading(hd.doc, hd.contents[h].line + 1,
                              hd.contents[h].level)

====
